---- MODULE Spec2Model ----
(***************************************************************************)
(* Confluence transcoder: the forward renderer of confluence_downloader.py *)
(* (Atlas document tree -> Markdown) and the Markdown -> storage-format    *)
(* parser of confluence_uploader.py.                                       *)
(*                                                                         *)
(* A Python str is modelled as a sequence of one-character strings, so     *)
(* that the regular expressions and the string formatting of the source    *)
(* are computed character by character.                                    *)
(***************************************************************************)
EXTENDS Integers, Sequences, FiniteSets, TLC

VARIABLES
    \* _extract_text_from_node on a text node
    node,             \* the node handed to _extract_text_from_node
    text_out,         \* the string it returned
    xpc,              \* "off" | "call" | "done"
    \* _convert_table_to_markdown
    table_content,    \* table_node['content'], the children read so far
    rows,             \* the local list rows
    rowspan_tracker,  \* the local dict rowspan_tracker: col_index -> remaining rows
    is_header_row,    \* the local flag is_header_row
    table_md,         \* the returned string, as its list of lines
    tpc,              \* "off" | "rows" | "done"
    grid,             \* history: the data model's own view of the table read so far
    span_log,         \* history: the rowspans placed and the rows they still cover
    \* MarkdownToStorageConverter.convert
    lines,            \* markdown_text.split('\n')
    i,                \* the line index of the block scan
    html_parts,       \* the local list html_parts: the element each part opens with
    scan_log,         \* history: per iteration, the branch taken, the lines it
                      \* took and the rows of a table it parsed
    cpc,              \* "off" | "wait" | "scan" | "done"
    \* atlas_doc_to_markdown and _convert_content_to_markdown_with_toc
    content,          \* atlas_content['content'], the top-level nodes
    headings,         \* the list collected by the first pass
    markdown,         \* the local list markdown of the second pass
    block_log,        \* history: per entry of markdown, its kind and its node
    node_index,       \* the index of the loop over content
    md_text,          \* the returned string
    rpc,              \* "off" | "prepass" | "render" | "done"
    \* MarkdownToStorageConverter._convert_inline
    inline_src,       \* the text handed to _convert_inline
    inline_text,      \* the local text, rewritten by each statement
    images,           \* self.images
    emitted,          \* history: the markup with attributes emitted so far
    stage_log,        \* history: the statements run so far
    ipc,              \* "off" | "run" | "done"
    \* atlas_doc_to_markdown with its collaborator calls
    doc_content,      \* atlas_content['content'], the top-level nodes
    doc_headings,     \* the list headings of the first pass
    doc_markdown,     \* the local list markdown, each string with its node's index
    visit_index,      \* the index of the loop under way
    visiting,         \* whether a node is being extracted
    returned,         \* the values the calls of the visit under way returned
    call_log,         \* history: the collaborator calls made
    visit_log,        \* history: per finished visit, the values its calls returned
    doc_text,         \* the returned string
    pass,             \* "off" | "prepass" | "render" | "raised" | "done"
    \* download_page
    page_data,        \* the value of the page's atlas_doc_format body, or None
    page_content,     \* the local content
    saved_files,      \* the Markdown files written
    downloaded_count, \* self.downloaded_count
    failed_count,     \* self.failed_count
    manifest,         \* the page ids with an entry in self.manifest
    success,          \* the value download_page returned
    dpc,              \* "off" | "fetched" | "save" | "done"
    \* two conversions on MarkdownToStorageConverter instances
    heap,             \* the list objects created so far
    converter_images, \* per converter, the list self.images is bound to
    run_lines,        \* per conversion, the lines of its text
    run_converter,    \* per conversion, the converter it runs on
    run_pending,      \* per conversion, the paths it has still to append
    run_appended,     \* history: per conversion, the paths it has appended
    image_refs,       \* per conversion, the list upload() obtained; 0 before
    run_pc,           \* per conversion, "idle" | "running" | "returned" | "read"
    \* ConfluenceUploader.upload_attachment
    filepath,         \* the argument filepath
    local_size,       \* os.path.getsize(filepath); 0 when the path is no file
    existing_attachments, \* the argument existing_attachments
    post_log,         \* history: the upload requests issued
    uploaded,         \* the value returned: "none" | "True" | "False"
    apc,              \* "off" | "call" | "posted" | "raised" | "done"
    \* runs of main: download_all over the pages of the space
    config,           \* SKIP_JAPANESE, SKIP_PATTERNS, INCLUDE_PATTERNS
    remote,           \* the server: page id -> version number and date
    update_mode,      \* self.update_mode
    page_list,        \* the local pages of download_all
    page_pos,         \* the index of the page download_all is at
    stats,            \* the four counters of the downloader
    self_manifest,    \* self.manifest: page id -> entry
    md_files,         \* the Markdown files on disk: page id -> header
    manifest_file,    \* .confluence_manifest.json on disk, and the run that wrote it
    loaded_run,       \* history: the run whose manifest file this run loaded, or 0
    page_log,         \* history: the calls of download_page that returned
    run_no,           \* the number of runs started
    now,              \* the clock of downloaded_at and mtime
    upc,              \* "off" | "main" | "pages"
    \* ConfluenceUploader.upload
    upload_args,      \* the arguments of upload and what the file gives
    request_log,      \* history: the calls of _api_request
    existing_page,    \* whether existing_page is a page
    images_left,      \* the image files not yet handed to upload_attachment
    printed,          \* whether the dry run printed the markup
    wpc,              \* the place in upload
    \* get_all_pages_content_api and search_all_pages
    listing,          \* the method called
    start_at,         \* start
    iteration,        \* iteration
    all_pages,        \* len(all_pages)
    requests,         \* history: the calls of self.session.get
    rate_limited,     \* history: the answers with status 429
    lpc               \* "off" | "loop" | "returned"

text_vars  == <<node, text_out, xpc>>
table_vars ==
    <<table_content, rows, rowspan_tracker, is_header_row, table_md, tpc, grid, span_log>>
convert_vars == <<lines, i, html_parts, scan_log, cpc>>
inline_vars == <<inline_src, inline_text, images, emitted, stage_log, ipc>>
media_vars ==
    <<doc_content, doc_headings, doc_markdown, visit_index, visiting, returned,
      call_log, visit_log, doc_text, pass>>
download_vars ==
    <<page_data, page_content, saved_files, downloaded_count, failed_count, manifest,
      success, dpc>>
shared_vars ==
    <<heap, converter_images, run_lines, run_converter, run_pending, run_appended,
      image_refs, run_pc>>
attach_vars == <<filepath, local_size, existing_attachments, post_log, uploaded, apc>>
update_vars ==
    <<config, remote, update_mode, page_list, page_pos, stats, self_manifest, md_files,
      manifest_file, loaded_run, page_log, run_no, now, upc>>
upload_vars == <<upload_args, request_log, existing_page, images_left, printed, wpc>>
listing_vars == <<listing, start_at, iteration, all_pages, requests, rate_limited, lpc>>
render_vars == <<content, headings, markdown, block_log, node_index, md_text, rpc>>
vars == <<text_vars, table_vars, convert_vars, render_vars, inline_vars, media_vars, download_vars, shared_vars, attach_vars, update_vars, upload_vars, listing_vars>>

(***************************************************************************)
(* Python str helpers                                                      *)
(***************************************************************************)

\* the backquote character, which a TLA+ string cannot hold
BQ == "bq"

\* the white-space characters (str.isspace, the class \s)
Whitespace == {" ", "\t", "\n"}

IsSpace(c) == c \in Whitespace

RECURSIVE lstrip(_)
\* str.lstrip()
lstrip(s) == IF s # <<>> /\ IsSpace(Head(s)) THEN lstrip(Tail(s)) ELSE s

RECURSIVE rstrip(_)
\* str.rstrip()
rstrip(s) ==
    IF s # <<>> /\ IsSpace(s[Len(s)]) THEN rstrip(SubSeq(s, 1, Len(s) - 1)) ELSE s

\* str.strip()
strip(s) == rstrip(lstrip(s))

\* str.startswith(p)
startswith(s, p) == Len(s) >= Len(p) /\ SubSeq(s, 1, Len(p)) = p

RECURSIVE Repeat(_, _)
\* the Python expression  s * n  (empty for n <= 0)
Repeat(s, n) == IF n <= 0 THEN <<>> ELSE s \o Repeat(s, n - 1)

RECURSIVE join(_, _)
\* sep.join(parts)
join(sep, parts) ==
    IF parts = <<>> THEN <<>>
    ELSE IF Len(parts) = 1 THEN parts[1]
    ELSE parts[1] \o sep \o join(sep, Tail(parts))

\* the elements of a sequence
Range(s) == {s[k] : k \in 1..Len(s)}

\* the markup m stands in the text t, unbroken
Occurs(m, t) ==
    \E k \in 1..(Len(t) - Len(m) + 1) : SubSeq(t, k, k + Len(m) - 1) = m

\* all sequences over S of length 0..n
SeqsUpTo(S, n) == UNION {[1..k -> S] : k \in 0..n}

(***************************************************************************)
(* _extract_text_from_node: text nodes and their marks                     *)
(***************************************************************************)

\* bound: marks carried by one text node
MaxMarks == 3

\* the texts and link targets tried
Texts == {<<"a">>, <<" ", "a">>, <<"a", " ", "b">>}
Hrefs == {<<"u">>, <<"v">>}

Marks ==
    {[type |-> "link", href |-> h] : h \in Hrefs}
        \cup {[type |-> t, href |-> <<>>] : t \in {"strong", "em", "code"}}

TextNodes == {[type |-> "text", text |-> t, marks |-> m] :
                  t \in Texts, m \in SeqsUpTo(Marks, MaxMarks)}

\* the indices of the link marks of a marks list
LinkIndices(marks) == {k \in 1..Len(marks) : marks[k].type = "link"}

RECURSIVE ApplyFormatting(_, _)
\* the second loop over marks: each strong/em/code mark wraps the stripped text
ApplyFormatting(text, marks) ==
    IF marks = <<>> THEN text
    ELSE LET mark_type == Head(marks).type
             wrapped ==
                 CASE mark_type = "strong" -> <<"*", "*">> \o strip(text) \o <<"*", "*">>
                   [] mark_type = "em"     -> <<"*">> \o strip(text) \o <<"*">>
                   [] mark_type = "code"   -> <<BQ>> \o strip(text) \o <<BQ>>
                   [] OTHER                -> text
         IN  ApplyFormatting(wrapped, Tail(marks))

\* a plausible slip: the link is applied after the other marks instead of first
ExtractTextNodeLinkLast(n) ==
    LET links == LinkIndices(n.marks)
        body  == ApplyFormatting(n.text, n.marks)
    IN  IF links # {}
        THEN LET first == CHOOSE k \in links : \A j \in links : k <= j
             IN  <<"[">> \o body \o <<"]", "(">> \o n.marks[first].href \o <<")">>
        ELSE body

\* the text branch of _extract_text_from_node
ExtractTextNode(n) ==
    LET links == LinkIndices(n.marks)
    IN  IF links # {}
        THEN LET first == CHOOSE k \in links : \A j \in links : k <= j
             IN  <<"[">> \o n.text \o <<"]", "(">> \o n.marks[first].href \o <<")">>
        ELSE ApplyFormatting(n.text, n.marks)

NoNode == [type |-> "none"]

TextIdle == node = NoNode /\ text_out = <<>> /\ xpc = "off"

TextInit == node \in TextNodes /\ text_out = <<>> /\ xpc = "call"

\* one call of _extract_text_from_node(node) on a text node
_extract_text_from_node ==
    /\ xpc = "call"
    /\ text_out' = ExtractTextNode(node)
    /\ xpc' = "done"
    /\ UNCHANGED node

(***************************************************************************)
(* _convert_table_to_markdown                                              *)
(***************************************************************************)

\* bounds: children of a table node, columns of the grid, largest rowspan/colspan
MaxRows == 3
MaxCols == 3
MaxSpan == 2

\* cell_content after extraction, escaping and strip(); ' ' stands for an empty cell
CellText == <<"x">>

Cell(ty, rs, cs) ==
    [type |-> ty, attrs |-> [rowspan |-> rs, colspan |-> cs], text |-> CellText]

\* a tableRow whose cells all have type ty and the given (rowspan, colspan) shapes
TableRow(ty, shapes) ==
    [type |-> "tableRow",
     content |-> [k \in 1..Len(shapes) |-> Cell(ty, shapes[k][1], shapes[k][2])]]

\* a child of the table node that is not a tableRow
OtherNode == [type |-> "paragraph", content |-> <<>>]

Shapes == (1..MaxSpan) \X (1..MaxSpan)

\* dict helpers for rowspan_tracker
DictSet(d, k, v) == [c \in DOMAIN d \cup {k} |-> IF c = k THEN v ELSE d[c]]
DictDel(d, k) == [c \in DOMAIN d \ {k} |-> d[c]]
EmptyDict == [c \in {} |-> <<0, <<>>>>]

RECURSIVE SkipOccupied(_)
\* the loop while col_index in rowspan_tracker and rowspan_tracker[col_index][0] > 0
\* st = [cells, tracker, col_index, row_is_header, spans]; spans records, for the
\* history only, the (col_index, rowspan) of the cells this row registered
SkipOccupied(st) ==
    IF st.col_index \in DOMAIN st.tracker /\ st.tracker[st.col_index][1] > 0
    THEN LET c    == st.col_index
             left == st.tracker[c][1] - 1
             t1   == DictSet(st.tracker, c, <<left, st.tracker[c][2]>>)
             t2   == IF left = 0 THEN DictDel(t1, c) ELSE t1
         IN  SkipOccupied([st EXCEPT !.cells = Append(@, <<>>),
                                     !.tracker = t2,
                                     !.col_index = c + 1])
    ELSE st

\* if rowspan > 1: rowspan_tracker[col_index] = (rowspan - 1, cell_content)
RegisterSpan(tracker, col_index, rowspan, cell_content) ==
    IF rowspan > 1 THEN DictSet(tracker, col_index, <<rowspan - 1, cell_content>>) ELSE tracker

RECURSIVE ReplaceChar(_, _, _)
\* s.replace(c, r) for a single character c
ReplaceChar(s, c, r) ==
    IF s = <<>> THEN <<>>
    ELSE (IF Head(s) = c THEN r ELSE <<Head(s)>>) \o ReplaceChar(Tail(s), c, r)

\* cell_content of a cell: pipes escaped, newlines turned into spaces, stripped,
\* and ' ' when nothing is left
CellContent(cell) ==
    LET c == strip(ReplaceChar(ReplaceChar(cell.text, "|", <<"\\", "|">>), "\n", <<" ">>))
    IN  IF c = <<>> THEN <<" ">> ELSE c

\* the body of for cell in row.get('content', []) for one tableCell/tableHeader,
\* after the while loop that fills spanned columns (s1) and with the cell's
\* text extracted (cell_content)
PlaceAt(s1, cell, cell_content) ==
    LET rowspan == cell.attrs.rowspan
        colspan == cell.attrs.colspan
    IN  [cells |-> Append(s1.cells, cell_content)
                       \o [k \in 1..(colspan - 1) |-> <<>>],
         tracker |-> RegisterSpan(s1.tracker, s1.col_index, rowspan, cell_content),
         col_index |-> s1.col_index + (colspan - 1) + 1,
         row_is_header |-> s1.row_is_header \/ cell.type = "tableHeader",
         spans |-> IF rowspan > 1 THEN s1.spans \cup {<<s1.col_index, rowspan>>}
                   ELSE s1.spans]

\* one iteration of for cell in row.get('content', [])
PlaceCell(st, cell) == PlaceAt(SkipOccupied(st), cell, CellContent(cell))

RECURSIVE PlaceCells(_, _)
\* the loop over the cells of one row; children that are no cells are passed over
PlaceCells(st, cs) ==
    IF cs = <<>> THEN st
    ELSE IF Head(cs).type \in {"tableCell", "tableHeader"}
         THEN PlaceCells(PlaceCell(st, Head(cs)), Tail(cs))
         ELSE PlaceCells(st, Tail(cs))

\* one tableRow: its cells, then the trailing fill of columns still spanned
ProcessRow(row, tracker) ==
    SkipOccupied(PlaceCells([cells |-> <<>>, tracker |-> tracker,
                             col_index |-> 0, row_is_header |-> FALSE, spans |-> {}],
                            row.content))

\* '| ' + ' | '.join(cells) + ' |'
FormatRow(cells) == <<"|", " ">> \o join(<<" ", "|", " ">>, cells) \o <<" ", "|">>

\* ['---'] * len(cells)
Separator(cells) == [k \in 1..Len(cells) |-> <<"-", "-", "-">>]

\* (row_is_header or (is_header_row and row_index == 0)) and len(rows) == 1
NeedsSeparator(row_is_header, first_flag, row_index, nrows) ==
    (row_is_header \/ (first_flag /\ row_index = 0)) /\ nrows = 1

\* the rest of the loop body once the row's cells are placed (st);
\* t = [rows, tracker, is_header_row], the locals of _convert_table_to_markdown
AfterRow(t, st, row_index) ==
    LET rows1 == IF st.cells # <<>> THEN Append(t.rows, st.cells) ELSE t.rows
        sep == st.cells # <<>>
                 /\ NeedsSeparator(st.row_is_header, t.is_header_row,
                                   row_index, Len(rows1))
    IN  [rows |-> IF sep THEN Append(rows1, Separator(st.cells)) ELSE rows1,
         tracker |-> st.tracker,
         is_header_row |-> IF sep THEN FALSE ELSE t.is_header_row,
         spans |-> st.spans,
         cells |-> st.cells]

\* the body of the loop for one tableRow at index row_index
RowEffect(t, row, row_index) == AfterRow(t, ProcessRow(row, t.tracker), row_index)

\* the locals carried to the next iteration
Locals(u) == [rows |-> u.rows, tracker |-> u.tracker, is_header_row |-> u.is_header_row]

RECURSIVE TableRows(_, _, _)
\* the whole loop over table_node['content'] from index k on
TableRows(nodes, k, t) ==
    IF k >= Len(nodes) THEN t.rows
    ELSE IF nodes[k + 1].type = "tableRow"
         THEN TableRows(nodes, k + 1, Locals(RowEffect(t, nodes[k + 1], k)))
         ELSE TableRows(nodes, k + 1, t)

\* the rows joined by newlines with two newlines after them; '' without rows
TableString(rs) ==
    IF rs # <<>>
    THEN join(<<"\n">>, [k \in 1..Len(rs) |-> FormatRow(rs[k])]) \o <<"\n", "\n">>
    ELSE <<>>

\* _convert_table_to_markdown(table_node) as one string
ConvertTable(table_node) ==
    TableString(TableRows(table_node.content, 0,
                          [rows |-> <<>>, tracker |-> EmptyDict, is_header_row |-> TRUE]))

(***************************************************************************)
(* The data model's grid: which columns of the coming rows are covered by  *)
(* a cell of an earlier row.  It says which rows may follow in a table     *)
(* that satisfies the invariant "every row has the header's column count". *)
(***************************************************************************)

RECURSIVE GridPlace(_, _, _, _, _)
\* lays the cells out left to right on the free columns; [fits, occ]
GridPlace(cs, col, ncols, occ, acc) ==
    IF col < ncols /\ occ[col] > 0
    THEN GridPlace(cs, col + 1, ncols, occ, [acc EXCEPT ![col] = occ[col] - 1])
    ELSE IF cs = <<>> THEN [fits |-> col = ncols, occ |-> acc]
    ELSE LET w == Head(cs).attrs.colspan
             covered == col..(col + w - 1)
         IN  IF col + w <= ncols /\ \A c \in covered : occ[c] = 0
             THEN GridPlace(Tail(cs), col + w, ncols, occ,
                            [c \in DOMAIN acc |->
                                IF c \in covered THEN Head(cs).attrs.rowspan - 1
                                ELSE acc[c]])
             ELSE [fits |-> FALSE, occ |-> acc]

RECURSIVE SumColspan(_)
SumColspan(cs) == IF cs = <<>> THEN 0 ELSE Head(cs).attrs.colspan + SumColspan(Tail(cs))

\* the grid after row; the first row fixes the column count
GridAfter(g, row) ==
    LET n == IF g.ncols = 0 THEN SumColspan(row.content) ELSE g.ncols
        occ == IF g.ncols = 0 THEN [c \in 0..(n - 1) |-> 0] ELSE g.occ
        r == GridPlace(row.content, 0, n, occ, occ)
    IN  [ncols |-> n, occ |-> r.occ, ok |-> g.ok /\ n > 0 /\ n <= MaxCols /\ r.fits]

NoGrid == [ncols |-> 0, occ |-> <<>>, ok |-> TRUE]

\* the rows each placed rowspan still has to cover: rowspan - 1 when the cell is
\* placed, one less after every following tableRow, forgotten at 0
DueAfter(due, spans) ==
    LET placed == {sp[1] : sp \in spans}
        kept == {c \in DOMAIN due : due[c] > 1} \ placed
    IN  [c \in placed \cup kept |->
            IF c \in placed THEN (CHOOSE sp \in spans : sp[1] = c)[2] - 1
            ELSE due[c] - 1]

NoSpans == [due |-> [c \in {} |-> 0], before |-> [c \in {} |-> 0], cells |-> <<>>]

\* the tableRows that may come next in a table satisfying the invariant
FittingRows(g) ==
    {r \in {TableRow(ty, sh) : ty \in {"tableCell", "tableHeader"},
                               sh \in SeqsUpTo(Shapes, MaxCols)} :
        GridAfter([g EXCEPT !.ok = TRUE], r).ok}

TableIdle ==
    /\ table_content = <<>> /\ rows = <<>> /\ rowspan_tracker = EmptyDict
    /\ is_header_row = TRUE /\ table_md = <<>> /\ tpc = "off" /\ grid = NoGrid
    /\ span_log = NoSpans

TableInit ==
    /\ table_content = <<>> /\ rows = <<>> /\ rowspan_tracker = EmptyDict
    /\ is_header_row = TRUE /\ table_md = <<>> /\ tpc = "rows" /\ grid = NoGrid
    /\ span_log = NoSpans

\* one iteration of the loop over table_node['content'] on a tableRow
TableRowStep(row) ==
    /\ tpc = "rows"
    /\ Len(table_content) < MaxRows
    /\ LET t == RowEffect([rows |-> rows, tracker |-> rowspan_tracker,
                           is_header_row |-> is_header_row],
                          row, Len(table_content))
       IN  /\ table_content' = Append(table_content, row)
           /\ rowspan_tracker' = t.tracker
           /\ rows' = t.rows
           /\ is_header_row' = t.is_header_row
           /\ span_log' = [due |-> DueAfter(span_log.due, t.spans),
                           before |-> span_log.due, cells |-> t.cells]
    /\ UNCHANGED <<table_md, tpc>>

\* a tableRow that fits the grid of the rows before it
TableFittingRow ==
    \E row \in FittingRows(grid) :
        /\ TableRowStep(row)
        /\ grid' = GridAfter(grid, row)

\* a tableRow without cells where the grid has room: the table breaks the invariant
TableEmptyRow ==
    /\ ~ GridAfter([grid EXCEPT !.ok = TRUE], TableRow("tableCell", <<>>)).ok
    /\ TableRowStep(TableRow("tableCell", <<>>))
    /\ grid' = [grid EXCEPT !.ok = FALSE]

\* one iteration of the loop on a child that is not a tableRow
TableOtherNode ==
    /\ tpc = "rows"
    /\ Len(table_content) < MaxRows
    /\ table_content' = Append(table_content, OtherNode)
    /\ grid' = [grid EXCEPT !.ok = FALSE]
    /\ UNCHANGED <<rows, rowspan_tracker, is_header_row, table_md, tpc, span_log>>

\* return '\n'.join(rows) + '\n\n' if rows else '', kept as the list of lines
TableReturn ==
    /\ tpc = "rows"
    /\ table_md' = IF rows # <<>>
                   THEN [k \in 1..Len(rows) |-> FormatRow(rows[k])] \o <<<<>>, <<>>>>
                   ELSE <<>>
    /\ tpc' = "done"
    /\ UNCHANGED <<table_content, rows, rowspan_tracker, is_header_row, grid, span_log>>

(***************************************************************************)
(* MarkdownToStorageConverter.convert: the block scan                      *)
(***************************************************************************)

\* bound: lines of the Markdown text
MaxLines == 3

\* a scan that advances needs at most len(lines) iterations; one that does not
\* is followed for this many more
ExtraIterations == 2

\* the class \d
Digits == {"0", "1", "2", "3", "4", "5", "6", "7", "8", "9"}

Letters ==
    {"a", "b", "c", "d", "e", "f", "g", "h", "i", "j", "k", "l", "m", "n", "o",
     "p", "q", "r", "s", "t", "u", "v", "w", "x", "y", "z"}

\* the characters of the class \w
WordChars == Letters \cup Digits \cup {"_"}

RECURSIVE SpanOf(_, _)
\* the number of leading characters of s that belong to the class S
SpanOf(S, s) == IF s # <<>> /\ Head(s) \in S THEN 1 + SpanOf(S, Tail(s)) ELSE 0

\* the class [\s|:-]
SeparatorChars == Whitespace \cup {"|", ":", "-"}

\* s[n:]
Drop(s, n) == SubSeq(s, n + 1, Len(s))

RECURSIVE split(_, _)
\* s.split(c) for a single character c
split(s, c) ==
    LET n == SpanOf({x \in Range(s) : x # c}, s)
    IN  IF n = Len(s) THEN <<s>>
        ELSE <<SubSeq(s, 1, n)>> \o split(Drop(s, n + 1), c)

RECURSIVE StripChars(_, _)
\* s.strip(chars) for a set of characters
StripChars(s, S) ==
    IF s # <<>> /\ Head(s) \in S THEN StripChars(Tail(s), S)
    ELSE IF s # <<>> /\ s[Len(s)] \in S THEN StripChars(SubSeq(s, 1, Len(s) - 1), S)
    ELSE s

\* line.strip().startswith(3 backquotes)
IsFence(line) == startswith(strip(line), <<BQ, BQ, BQ>>)

\* re.match(r'^---+\s*$', line.strip())
IsRule(line) ==
    LET t == strip(line) IN Len(t) >= 3 /\ SpanOf({"-"}, t) = Len(t)

\* re.match(r'^(#{1,6})\s+(.+)$', line): 1..6 hashes, white space, one more character
IsHeading(line) ==
    LET n == SpanOf({"#"}, line)
    IN  n \in 1..6 /\ Len(line) >= n + 2 /\ IsSpace(line[n + 1])

\* re.match(r'^[\s|:-]+$', line)
IsSeparatorOnly(line) == line # <<>> /\ SpanOf(SeparatorChars, line) = Len(line)

\* '|' in line and i + 1 < len(lines) and the next line is separator-only
IsTable(ls, k) ==
    /\ \E c \in 1..Len(ls[k + 1]) : ls[k + 1][c] = "|"
    /\ k + 1 < Len(ls)
    /\ IsSeparatorOnly(ls[k + 2])

\* re.match(r'^[\s]*[-*+]\s', line)
IsUnordered(line) ==
    LET t == Drop(line, SpanOf(Whitespace, line))
    IN  Len(t) >= 2 /\ t[1] \in {"-", "*", "+"} /\ IsSpace(t[2])

\* re.match(r'^[\s]*\d+\.\s', line)
IsOrdered(line) ==
    LET t == Drop(line, SpanOf(Whitespace, line))
        d == SpanOf(Digits, t)
    IN  d >= 1 /\ Len(t) >= d + 2 /\ t[d + 1] = "." /\ IsSpace(t[d + 2])

\* line.strip().startswith('>')
IsQuote(line) == startswith(strip(line), <<">">>)

\* not line.strip()
IsBlank(line) == strip(line) = <<>>

\* the item patterns of _parse_list: the marker, white space and at least one
\* more character:  r'^[\s]*[-*+]\s+(.+)$'  and  r'^[\s]*\d+\.\s+(.+)$'
IsUnorderedItem(line) ==
    LET t == Drop(line, SpanOf(Whitespace, line))
    IN  Len(t) >= 3 /\ t[1] \in {"-", "*", "+"} /\ IsSpace(t[2])

IsOrderedItem(line) ==
    LET t == Drop(line, SpanOf(Whitespace, line))
        d == SpanOf(Digits, t)
    IN  d >= 1 /\ Len(t) >= d + 3 /\ t[d + 1] = "." /\ IsSpace(t[d + 2])

\* a slip: the list rules are tried before the table rule
BranchListsFirst(ls, k) ==
    LET line == ls[k + 1]
    IN  IF IsFence(line) THEN "code"
        ELSE IF IsRule(line) THEN "hr"
        ELSE IF IsHeading(line) THEN "heading"
        ELSE IF IsUnordered(line) THEN "ul"
        ELSE IF IsOrdered(line) THEN "ol"
        ELSE IF IsTable(ls, k) THEN "table"
        ELSE IF IsQuote(line) THEN "blockquote"
        ELSE IF IsBlank(line) THEN "blank"
        ELSE "p"

\* the if-chain of the while loop: the branch taken for lines[k]
Branch(ls, k) ==
    LET line == ls[k + 1]
    IN  IF IsFence(line) THEN "code"
        ELSE IF IsRule(line) THEN "hr"
        ELSE IF IsHeading(line) THEN "heading"
        ELSE IF IsTable(ls, k) THEN "table"
        ELSE IF IsUnordered(line) THEN "ul"
        ELSE IF IsOrdered(line) THEN "ol"
        ELSE IF IsQuote(line) THEN "blockquote"
        ELSE IF IsBlank(line) THEN "blank"
        ELSE "p"

RECURSIVE CodeBlockEnd(_, _)
\* _parse_code_block: the index after the closing fence, from k = start + 1
CodeBlockEnd(ls, k) ==
    IF k < Len(ls)
    THEN IF strip(ls[k + 1]) = <<BQ, BQ, BQ>> THEN k + 1 ELSE CodeBlockEnd(ls, k + 1)
    ELSE k

\* _parse_code_block(lines, start): the language after the opening fence and
\* the lines up to the closing fence (or to the end) joined by '\n'
ParseCodeBlock(ls, start) ==
    LET first_line == strip(ls[start + 1])
        rest == Drop(first_line, 3)
        next == CodeBlockEnd(ls, start + 1)
        closed == next > start + 1 /\ strip(ls[next]) = <<BQ, BQ, BQ>>
        last == IF closed THEN next - 1 ELSE next
    IN  [lang |-> SubSeq(rest, 1, SpanOf(WordChars, rest)),
         body |-> join(<<"\n">>, [k \in 1..(last - (start + 1)) |-> ls[start + 1 + k]])]

\* what a block that is no code block leaves in the log
NoCode == [lang |-> <<>>, body |-> <<>>]

RECURSIVE TableEndAnyLine(_, _)
\* a slip: the data rows go on over lines without a pipe
TableEndAnyLine(ls, k) ==
    IF k < Len(ls) /\ strip(ls[k + 1]) # <<>>
    THEN TableEndAnyLine(ls, k + 1) ELSE k

RECURSIVE TableEnd(_, _)
\* _parse_table: the index after the data rows, from k = start + 2
TableEnd(ls, k) ==
    IF k < Len(ls) /\ (\E c \in 1..Len(ls[k + 1]) : ls[k + 1][c] = "|")
                   /\ strip(ls[k + 1]) # <<>>
    THEN TableEnd(ls, k + 1) ELSE k

RECURSIVE ListEnd(_, _, _)
\* _parse_list: the index after the last consecutive line matching the item pattern
ListEnd(ls, k, ordered) ==
    IF k < Len(ls) /\ (IF ordered THEN IsOrderedItem(ls[k + 1])
                                  ELSE IsUnorderedItem(ls[k + 1]))
    THEN ListEnd(ls, k + 1, ordered) ELSE k

RECURSIVE QuoteEnd(_, _)
\* _parse_blockquote: the index after the last consecutive quoted line
QuoteEnd(ls, k) ==
    IF k < Len(ls) /\ IsQuote(ls[k + 1]) THEN QuoteEnd(ls, k + 1) ELSE k

\* [c.strip() for c in line.strip().strip('|').split('|')]
RowCells(line) ==
    LET cs == split(StripChars(strip(line), {"|"}), "|")
    IN  [k \in 1..Len(cs) |-> strip(cs[k])]

\* _parse_table(lines, start): the cells of the header row and of each data row
ParseTable(ls, start, end) ==
    [header |-> RowCells(ls[start + 1]),
     body |-> [k \in 1..(end - (start + 2)) |-> RowCells(ls[start + 2 + k])]]

\* what a block that is no table leaves in the log
NoTable == [header |-> <<>>, body |-> <<>>]

\* the value of i after the branch `kind` taken at lines[k]
NextIndex(ls, k, kind) ==
    CASE kind = "code"       -> CodeBlockEnd(ls, k + 1)
      [] kind = "table"      -> TableEnd(ls, k + 2)
      [] kind = "ul"         -> ListEnd(ls, k, FALSE)
      [] kind = "ol"         -> ListEnd(ls, k, TRUE)
      [] kind = "blockquote" -> QuoteEnd(ls, k)
      [] OTHER               -> k + 1

\* the Markdown lines tried
LineSamples ==
    { <<>>,                          \* blank
      <<"a">>,                       \* paragraph
      <<"-", " ", "a">>,             \* list item
      <<"-", " ">>,                  \* list marker with nothing after it
      <<"-", " ", "|">>,             \* list item that is also a table header line
      <<"1", ".", " ", "a">>,        \* ordered item
      <<"1", ".", " ", "|">>,        \* ordered item that is also a table header line
      <<"#", " ", "|">>,             \* heading that is also a table header line
      <<"|", "-", "|">>,             \* separator-only line
      <<"|", " ", "a", " ", "|", " ", "b", " ", "|">>,    \* row of two cells
      <<"|", " ", "-", "-", "-", " ", "|", " ", "-", "-", "-", " ", "|">>,
      <<"|", "|", "a", "|">>,        \* row with a doubled outer pipe
      <<"-", "-", "-">>,             \* rule, and separator-only
      <<">", "a">>,                  \* quote
      <<BQ, BQ, BQ>> }               \* fence

ConvertIdle ==
    lines = <<>> /\ i = 0 /\ html_parts = <<>> /\ scan_log = <<>> /\ cpc = "off"

\* convert(markdown_text) up to the loop: self.images = [], the split, i = 0.
\* str.split never returns an empty list.
ConvertInit ==
    /\ lines \in SeqsUpTo(LineSamples, MaxLines) \ {<<>>}
    /\ i = 0 /\ html_parts = <<>> /\ scan_log = <<>> /\ cpc = "scan"

\* one iteration of  while i < len(lines)  that takes the branch `kind`
ScanStep(kind) ==
    /\ cpc = "scan"
    /\ i < Len(lines)
    /\ Len(scan_log) < Len(lines) + ExtraIterations
    /\ Branch(lines, i) = kind
    /\ i' = NextIndex(lines, i, kind)
    /\ html_parts' = IF kind = "blank" THEN html_parts ELSE Append(html_parts, kind)
    /\ scan_log' = Append(scan_log,
           [kind |-> kind, start |-> i, next |-> i',
            table |-> IF kind = "table" THEN ParseTable(lines, i, i') ELSE NoTable,
            code |-> IF kind = "code" THEN ParseCodeBlock(lines, i) ELSE NoCode])
    /\ UNCHANGED <<lines, cpc>>

ScanCodeBlock == ScanStep("code")
ScanRule == ScanStep("hr")
ScanHeading == ScanStep("heading")
ScanTable == ScanStep("table")
ScanUnorderedList == ScanStep("ul")
ScanOrderedList == ScanStep("ol")
ScanBlockquote == ScanStep("blockquote")
ScanBlank == ScanStep("blank")
ScanParagraph == ScanStep("p")

\* the loop ends and convert returns '\n'.join(html_parts)
ConvertReturn ==
    /\ cpc = "scan"
    /\ i >= Len(lines)
    /\ cpc' = "done"
    /\ UNCHANGED <<lines, i, html_parts, scan_log>>

(***************************************************************************)
(* atlas_doc_to_markdown and _convert_content_to_markdown_with_toc         *)
(***************************************************************************)

\* bounds: top-level nodes of a document, and of a document that is rendered
\* and then parsed back
MaxNodes == 4
MaxPipelineNodes == 2

\* the bullet the renderer writes before a list item: U+2022, kept in the source
\* file as the characters of its mis-decoded UTF-8 bytes; none of them is one of
\* - * + or white space, and the token stands for all of them
BULLET == "bullet"

\* the title line of the table of contents ('## ' and a two-syllable word) and
\* the sentence of the placeholder, one token per word
TocTitle == <<"#", "#", " ", "mok", "cha">>
TocPlaceholder == TocTitle \o <<"\n", "\n", "*", "toc-shown-here", "*">>

\* dict.get(key, default)
Get(rec, key, default) == IF key \in DOMAIN rec THEN rec[key] ELSE default

\* the node shapes of the documents tried
TextNode(t) == [type |-> "text", text |-> t, marks |-> <<>>]
Paragraph(t) == [type |-> "paragraph", content |-> <<TextNode(t)>>]
Heading(l, t) ==
    [type |-> "heading", attrs |-> [level |-> l], content |-> <<TextNode(t)>>]
ListItem(children) == [type |-> "listItem", content |-> children]
BulletList(items) == [type |-> "bulletList", content |-> items]
OrderedList(items) == [type |-> "orderedList", content |-> items]
CodeBlock(lang, t) ==
    [type |-> "codeBlock", attrs |-> [language |-> lang], content |-> <<TextNode(t)>>]
Rule == [type |-> "rule"]
Expand(title, children) ==
    [type |-> "expand", attrs |-> [title |-> title], content |-> children]
Toc == [type |-> "extension", attrs |-> [extensionKey |-> "toc"]]
Table(trs) == [type |-> "table", content |-> trs]
\* a node of a type the dispatch has no branch for
Panel(t) == [type |-> "panel", content |-> <<Paragraph(t)>>]

\* the node types _convert_content_to_markdown_with_toc has a branch for
DispatchedTypes ==
    {"paragraph", "heading", "bulletList", "orderedList", "table", "codeBlock", "rule",
     "mediaSingle", "layoutSection", "expand", "extension", "embedCard"}

\* _extract_extension_content: the toc placeholder; '' for an extension without
\* macro output
ExtensionContent(n) ==
    IF Get(Get(n, "attrs", <<>>), "extensionKey", "") = "toc" THEN TocPlaceholder
    ELSE <<>>

RECURSIVE JoinParts(_)
\* ''.join of the parts, with one space after a part that ends with **, * or a
\* backquote when a non-empty part follows
JoinParts(parts) ==
    IF parts = <<>> THEN <<>>
    ELSE LET part == Head(parts)
             gap == IF /\ Len(parts) > 1
                       /\ part # <<>>
                       /\ part[Len(part)] \in {"*", BQ}
                       /\ parts[2] # <<>>
                    THEN <<" ">> ELSE <<>>
         IN  part \o gap \o JoinParts(Tail(parts))

RECURSIVE ExtractText(_)
\* _extract_text_from_node(node) for extension and text nodes and for the nodes
\* that fall through to the recursion over their content
ExtractText(n) ==
    IF n.type = "extension" THEN ExtensionContent(n)
    ELSE IF n.type = "text" THEN ExtractTextNode(n)
    ELSE LET cs == Get(n, "content", <<>>)
         IN  JoinParts([k \in 1..Len(cs) |-> ExtractText(cs[k])])

RECURSIVE ToStr(_)
\* str(n) for n >= 0
ToStr(n) ==
    LET d == <<"0", "1", "2", "3", "4", "5", "6", "7", "8", "9">>[(n % 10) + 1]
    IN  IF n < 10 THEN <<d>> ELSE ToStr(n \div 10) \o <<d>>

RECURSIVE CollectedHeadingsNested(_)
\* a slip: the pre-pass also descends into expand sections
CollectedHeadingsNested(nodes) ==
    IF nodes = <<>> THEN <<>>
    ELSE LET n == Head(nodes)
             text == ExtractText(n)
             here == IF n.type = "heading" /\ strip(text) # <<>>
                     THEN <<[level |-> Get(Get(n, "attrs", <<>>), "level", 1),
                             text |-> strip(text)]>>
                     ELSE IF n.type = "expand"
                          THEN CollectedHeadingsNested(Get(n, "content", <<>>))
                          ELSE <<>>
         IN  here \o CollectedHeadingsNested(Tail(nodes))

RECURSIVE CollectedHeadings(_)
\* the first pass of atlas_doc_to_markdown over the top-level nodes
CollectedHeadings(nodes) ==
    IF nodes = <<>> THEN <<>>
    ELSE LET n == Head(nodes)
             text == ExtractText(n)
             here == IF n.type = "heading" /\ strip(text) # <<>>
                     THEN <<[level |-> Get(Get(n, "attrs", <<>>), "level", 1),
                             text |-> strip(text)]>>
                     ELSE <<>>
         IN  here \o CollectedHeadings(Tail(nodes))

\* a rendered block: the string appended to the list markdown, with the kind of
\* block it is meant to be, where its node sits and the node itself
Block(kind, where, n, text) == [kind |-> kind, where |-> where, node |-> n, text |-> text]

\* a slip: the space between the hashes and the text is left out
HeadingLineNoSpace(level, text) == Repeat(<<"#">>, level) \o text

\* '#' * level + ' ' + text
HeadingLine(level, text) == Repeat(<<"#">>, level) \o <<" ">> \o text

RECURSIVE NestedBullets(_, _, _, _)
\* the loop over the items of a bulletList nested in a list item
NestedBullets(items, indent, where, acc) ==
    IF items = <<>> THEN acc
    ELSE LET it == Head(items)
             bullet_text == ExtractText(it)
         IN  NestedBullets(Tail(items), indent, where,
                 IF it.type = "listItem" /\ strip(bullet_text) # <<>>
                 THEN Append(acc, Block("nested", where, it,
                                        indent \o <<"-", " ">> \o bullet_text))
                 ELSE acc)

RECURSIVE ItemLines(_, _, _, _, _, _)
\* the loop over the content of one listItem; item_lines grows from []
ItemLines(children, item_lines, kind, primary, indent, where) ==
    IF children = <<>> THEN item_lines
    ELSE LET c == Head(children)
             text == ExtractText(c)
             next ==
                 IF c.type = "paragraph"
                 THEN IF strip(text) # <<>>
                      THEN IF item_lines = <<>>
                           THEN <<Block(kind, where, c, primary \o text)>>
                           ELSE Append(item_lines,
                                       Block("continuation", where, c, indent \o text))
                      ELSE item_lines
                 ELSE IF c.type = "bulletList"
                      THEN NestedBullets(Get(c, "content", <<>>), indent, where, item_lines)
                      ELSE item_lines
         IN  ItemLines(Tail(children), next, kind, primary, indent, where)

RECURSIVE BulletListLines(_, _)
\* the bulletList branch: the lines of all items
BulletListLines(items, where) ==
    IF items = <<>> THEN <<>>
    ELSE (IF Head(items).type = "listItem"
          THEN ItemLines(Get(Head(items), "content", <<>>), <<>>, "ul",
                         <<BULLET, " ">>, <<" ", " ">>, where)
          ELSE <<>>)
         \o BulletListLines(Tail(items), where)

RECURSIVE OrderedListLines(_, _, _)
\* the orderedList branch at top level: items numbered from idx
OrderedListLines(items, idx, where) ==
    IF items = <<>> THEN <<>>
    ELSE (IF Head(items).type = "listItem"
          THEN ItemLines(Get(Head(items), "content", <<>>), <<>>, "ol",
                         ToStr(idx) \o <<".", " ">>, <<" ", " ", " ">>, where)
          ELSE <<>>)
         \o OrderedListLines(Tail(items), idx + 1, where)

RECURSIVE ExpandOrderedListLines(_, _)
\* the orderedList branch inside an expand: one line per item, its whole text
ExpandOrderedListLines(items, idx) ==
    IF items = <<>> THEN <<>>
    ELSE LET text == ExtractText(Head(items))
         IN  (IF Head(items).type = "listItem" /\ strip(text) # <<>>
              THEN <<Block("ol", "expand", Head(items), ToStr(idx) \o <<".", " ">> \o text)>>
              ELSE <<>>)
             \o ExpandOrderedListLines(Tail(items), idx + 1)

\* str.lower() on the letters the texts use
Lower(c) ==
    CASE c = "A" -> "a" [] c = "B" -> "b" [] c = "C" -> "c" [] c = "D" -> "d"
      [] c = "E" -> "e" [] c = "S" -> "s" [] c = "T" -> "t" [] OTHER -> c

RECURSIVE AnchorChars(_)
\* the chain of replace() calls and lower() that builds the anchor; every
\* replaced string is a single character except '**', which the removal of '*'
\* covers
AnchorChars(text) ==
    IF text = <<>> THEN <<>>
    ELSE LET c == Head(text)
         IN  (IF c \in {"*", BQ, "\"", "'", ".", "/", "(", ")", "&", ":"} THEN <<>>
              ELSE IF c = " " THEN <<"-">>
              ELSE <<Lower(c)>>)
             \o AnchorChars(Tail(text))

\* f"{indent}- [{text}](#{anchor})"
TocLine(h) ==
    Repeat(<<" ", " ", " ">>, h.level - 2) \o <<"-", " ", "[">> \o h.text
        \o <<"]", "(", "#">> \o AnchorChars(h.text) \o <<")">>

RECURSIVE TocLinesAllLevels(_)
\* a slip: the limit to level 3 is left out
TocLinesAllLevels(hs) ==
    IF hs = <<>> THEN <<>> ELSE <<TocLine(Head(hs))>> \o TocLinesAllLevels(Tail(hs))

RECURSIVE TocLines(_)
\* the loop over headings: one line per heading of level <= 3
TocLines(hs) ==
    IF hs = <<>> THEN <<>>
    ELSE (IF Head(hs).level > 3 THEN <<>> ELSE <<TocLine(Head(hs))>>)
         \o TocLines(Tail(hs))

\* the extension branch at top level
ExtensionBlocks(n, hs) ==
    IF Get(Get(n, "attrs", <<>>), "extensionKey", "") = "toc" /\ hs # <<>>
    THEN <<Block("toc", "top", n, join(<<"\n">>, <<TocTitle, <<>>>> \o TocLines(hs)))>>
    ELSE LET text == ExtensionContent(n)
         IN  IF strip(text) # <<>> THEN <<Block("extension", "top", n, text)>> ELSE <<>>

\* f"```{language}\n{text}\n```"
CodeFence(n, text) ==
    <<BQ, BQ, BQ>> \o Get(Get(n, "attrs", <<>>), "language", <<>>) \o <<"\n">>
        \o text \o <<"\n", BQ, BQ, BQ>>

\* the table branch at top level: table_md.strip() is appended when non-empty
TableBlock(n, md) ==
    IF strip(md) # <<>> THEN <<Block("table", "top", n, strip(md))>> ELSE <<>>

\* the table branch inside an expand: table_md is appended as it is
ExpandTableBlock(c, md) ==
    IF md # <<>> THEN <<Block("table", "expand", c, md)>> ELSE <<>>

\* the blocks one child of an expand appends
ExpandChildBlocks(c) ==
    LET text == ExtractText(c)
    IN  CASE c.type = "paragraph" ->
                IF strip(text) # <<>> THEN <<Block("p", "expand", c, text)>> ELSE <<>>
          [] c.type = "heading" ->
                IF strip(text) # <<>>
                THEN <<Block("heading", "expand", c,
                             HeadingLine(Get(Get(c, "attrs", <<>>), "level", 1) + 1, text))>>
                ELSE <<>>
          [] c.type = "bulletList" -> BulletListLines(Get(c, "content", <<>>), "expand")
          [] c.type = "orderedList" -> ExpandOrderedListLines(Get(c, "content", <<>>), 1)
          [] c.type = "rule" -> <<Block("hr", "expand", c, <<"-", "-", "-">>)>>
          [] c.type = "table" -> ExpandTableBlock(c, ConvertTable(c))
          [] c.type = "codeBlock" ->
                IF strip(text) # <<>>
                THEN <<Block("code", "expand", c, CodeFence(c, text))>> ELSE <<>>
          [] OTHER ->
                IF strip(text) # <<>> THEN <<Block("other", "expand", c, text)>> ELSE <<>>

RECURSIVE ExpandChildren(_)
ExpandChildren(cs) ==
    IF cs = <<>> THEN <<>> ELSE ExpandChildBlocks(Head(cs)) \o ExpandChildren(Tail(cs))

\* the blocks one top-level node appends to the list markdown
NodeBlocks(n, hs) ==
    LET text == ExtractText(n)
    IN  CASE n.type = "paragraph" ->
                IF strip(text) # <<>> THEN <<Block("p", "top", n, text)>> ELSE <<>>
          [] n.type = "heading" ->
                IF strip(text) # <<>>
                THEN <<Block("heading", "top", n,
                             HeadingLine(Get(Get(n, "attrs", <<>>), "level", 1), text))>>
                ELSE <<>>
          [] n.type = "bulletList" -> BulletListLines(Get(n, "content", <<>>), "top")
          [] n.type = "orderedList" -> OrderedListLines(Get(n, "content", <<>>), 1, "top")
          [] n.type = "table" -> TableBlock(n, ConvertTable(n))
          [] n.type = "codeBlock" ->
                IF strip(text) # <<>>
                THEN <<Block("code", "top", n, CodeFence(n, text))>> ELSE <<>>
          [] n.type = "rule" -> <<Block("hr", "top", n, <<"-", "-", "-">>)>>
          [] n.type = "expand" ->
                <<Block("expand_title", "top", n,
                        <<"#", "#", "#", " ">>
                            \o Get(Get(n, "attrs", <<>>), "title",
                                   <<"D", "e", "t", "a", "i", "l", "s">>))>>
                    \o ExpandChildren(Get(n, "content", <<>>))
          [] n.type = "extension" -> ExtensionBlocks(n, hs)
          [] OTHER -> <<>>

\* the documents tried for the table of contents and the headings
TocNodes ==
    { Heading(1, <<"A">>), Heading(2, <<"b">>), Heading(4, <<"c">>),
      Heading(3, <<" ">>), Toc,
      Expand(<<"E">>, <<Heading(6, <<"e">>), Toc>>) }

\* the documents tried for rendering and parsing back: one node of every kind
PipelineNodes ==
    { Paragraph(<<"p">>),
      Paragraph(<<">", " ", "q">>),
      Heading(2, <<"S">>),
      BulletList(<<ListItem(<<Paragraph(<<"a">>), Paragraph(<<"c">>),
                             BulletList(<<ListItem(<<Paragraph(<<"b">>)>>)>>)>>)>>),
      OrderedList(<<ListItem(<<Paragraph(<<"a">>)>>), ListItem(<<Paragraph(<<"b">>)>>)>>),
      Table(<<TableRow("tableHeader", <<<<1, 1>>, <<1, 1>>>>),
              TableRow("tableCell", <<<<1, 1>>, <<1, 1>>>>)>>),
      CodeBlock(<<"p", "y">>, <<"x">>),
      Rule,
      Toc,
      Expand(<<"E">>, <<Paragraph(<<"p">>), Heading(1, <<"e">>),
                        OrderedList(<<ListItem(<<Paragraph(<<"a">>)>>)>>),
                        Rule, CodeBlock(<<>>, <<"x">>),
                        BulletList(<<ListItem(<<Paragraph(<<"a">>),
                                                BulletList(<<ListItem(<<Paragraph(<<"b">>)>>)>>)>>)>>),
                        Table(<<TableRow("tableCell", <<<<1, 1>>>>)>>),
                        Panel(<<"z">>)>>),
      Panel(<<"z">>) }

\* bound: the number of children of a list item
MaxItemChildren == 3

\* the children of the list items tried: paragraphs with text, a paragraph of
\* white space, and a nested bulletList
ItemChildren ==
    { Paragraph(<<"a">>), Paragraph(<<"c">>), Paragraph(<<" ">>),
      BulletList(<<ListItem(<<Paragraph(<<"b">>)>>)>>) }

\* the documents tried for the lines of a list item: one list of one item
ListDocs ==
    { <<BulletList(<<ListItem(cs)>>)>> : cs \in SeqsUpTo(ItemChildren, MaxItemChildren) }
    \cup { <<OrderedList(<<ListItem(cs)>>)>> : cs \in SeqsUpTo(ItemChildren, MaxItemChildren) }

\* a codeBlock with the given text children
CodeBlockOf(lang, ts) ==
    [type |-> "codeBlock", attrs |-> [language |-> lang],
     content |-> [k \in 1..Len(ts) |-> TextNode(ts[k])]]

\* the languages tried: none, a word, and a name with characters outside \w
CodeLanguages == {<<>>, <<"p", "y">>, <<"c", "+", "+">>}

\* the text children tried: one line, two lines, a line that ends with a
\* newline, two children, a child that ends with an asterisk before another
\* child, bodies with a fence line, a heading line and a blank body
CodeBodies ==
    { << <<"x">> >>,
      << <<"x", "\n", "y">> >>,
      << <<"x", "\n">> >>,
      << <<"a">>, <<"b">> >>,
      << <<"a", "*">>, <<"b">> >>,
      << <<"x", "\n", BQ, BQ, BQ, "\n", "y">> >>,
      << <<"x", "\n", BQ, BQ, BQ, "\n", "#", " ", "h">> >>,
      << <<"#", " ", "h">> >>,
      << <<" ">> >> }

\* documents of one codeBlock, alone and before a paragraph
CodeDocs ==
    UNION {{ <<CodeBlockOf(l, ts)>>, <<CodeBlockOf(l, ts), Paragraph(<<"p">>)>> } :
           l \in CodeLanguages, ts \in CodeBodies}

RenderIdle ==
    /\ content = <<>> /\ headings = <<>> /\ markdown = <<>> /\ block_log = <<>>
    /\ node_index = 0 /\ md_text = <<>> /\ rpc = "off"

\* atlas_doc_to_markdown on a parsed doc node, before the first pass
RenderInit(docs) ==
    /\ content \in docs
    /\ headings = <<>> /\ markdown = <<>> /\ block_log = <<>>
    /\ node_index = 0 /\ md_text = <<>> /\ rpc = "prepass"

\* the first pass: all top-level headings are collected
CollectHeadings ==
    /\ rpc = "prepass"
    /\ headings' = CollectedHeadings(content)
    /\ rpc' = "render"
    /\ UNCHANGED <<content, markdown, block_log, node_index, md_text>>

\* markdown.append / markdown.extend of the blocks bs
AppendBlocks(bs) ==
    /\ markdown' = markdown \o [k \in 1..Len(bs) |-> bs[k].text]
    /\ block_log' = block_log
           \o [k \in 1..Len(bs) |->
                  [kind |-> bs[k].kind, where |-> bs[k].where, node |-> bs[k].node]]

\* one iteration of the loop of _convert_content_to_markdown_with_toc on a node
\* of type ty
RenderNode(ty) ==
    /\ rpc = "render"
    /\ node_index < Len(content)
    /\ content[node_index + 1].type = ty
    /\ AppendBlocks(NodeBlocks(content[node_index + 1], headings))
    /\ node_index' = node_index + 1
    /\ UNCHANGED <<content, headings, md_text, rpc>>

RenderParagraph == RenderNode("paragraph")
RenderHeading == RenderNode("heading")
RenderBulletList == RenderNode("bulletList")
RenderOrderedList == RenderNode("orderedList")
RenderTable == RenderNode("table")
RenderCodeBlock == RenderNode("codeBlock")
RenderRule == RenderNode("rule")
RenderExpand == RenderNode("expand")
RenderExtension == RenderNode("extension")

\* an iteration on a node no branch of the if-chain matches
RenderUnrecognized ==
    \E ty \in {content[k].type : k \in 1..Len(content)} \ DispatchedTypes : RenderNode(ty)

\* return '\n\n'.join(filter(None, markdown))
RenderReturn ==
    /\ rpc = "render"
    /\ node_index >= Len(content)
    /\ md_text' = join(<<"\n", "\n">>, SelectSeq(markdown, LAMBDA b : b # <<>>))
    /\ rpc' = "done"
    /\ UNCHANGED <<content, headings, markdown, block_log, node_index>>

\* the rendered Markdown is handed to convert(): the split into lines, i = 0
ConvertRendered ==
    /\ rpc = "done"
    /\ cpc = "wait"
    /\ lines' = split(md_text, "\n")
    /\ cpc' = "scan"
    /\ UNCHANGED <<i, html_parts, scan_log>>

(***************************************************************************)
(* MarkdownToStorageConverter._convert_inline and _escape_xml              *)
(*                                                                         *)
(* A text is a sequence of characters.  A tag the pipeline emits is kept   *)
(* as one element, since it holds none of the characters a later pattern   *)
(* looks for; attribute values and element bodies stay character by        *)
(* character.                                                              *)
(***************************************************************************)

\* bound: pieces the text of one line is put together from
MaxPieces == 4

\* the class \w
IsWord(c) == c \in WordChars

\* the tags of the emitted elements
ImageOpen == "<ac:image ac:alt=\""
ImageWidth == "\" ac:width=\""
ImageMid == "\"><ri:attachment ri:filename=\""
ImageClose == "\"/></ac:image>"
LinkOpen == "<a href=\""
LinkMid == "\">"
LinkClose == "</a>"
Tags ==
    {ImageOpen, ImageWidth, ImageMid, ImageClose, LinkOpen, LinkMid, LinkClose,
     "<strong>", "</strong>", "<em>", "</em>", "<del>", "</del>",
     "<code>", "</code>", "<br/>"}

\* the four replace() calls of _escape_xml on one element of a text: an entity
\* escaped again has its & replaced, a tag its < > and quotes
EscapeChar(c) ==
    CASE c = "&" -> "&amp;"
      [] c = "<" -> "&lt;"
      [] c = ">" -> "&gt;"
      [] c = "\"" -> "&quot;"
      [] c = "&amp;" -> "&amp;amp;"
      [] c = "&lt;" -> "&amp;lt;"
      [] c = "&gt;" -> "&amp;gt;"
      [] c = "&quot;" -> "&amp;quot;"
      [] c \in Tags -> "escaped tag"
      [] OTHER -> c

\* _escape_xml(text)
_escape_xml(text) == [k \in 1..Len(text) |-> EscapeChar(text[k])]

RECURSIVE basename(_)
\* os.path.basename(path): what follows the last slash
basename(path) ==
    IF \E k \in 1..Len(path) : path[k] = "/"
    THEN basename(Drop(path, SpanOf(Range(path) \ {"/"}, path) + 1))
    ELSE path

\* the characters of '|width='
WidthKey == <<"|", "w", "i", "d", "t", "h", "=">>

RECURSIVE WidthAt(_, _)
\* re.match(r'^(.+?)\|width=(\d+)$', alt_raw): the length of group 1, tried
\* from n characters on; 0 without a match
WidthAt(alt_raw, n) ==
    IF n + Len(WidthKey) >= Len(alt_raw) THEN 0
    ELSE IF /\ SubSeq(alt_raw, n + 1, n + Len(WidthKey)) = WidthKey
            /\ \A k \in (n + Len(WidthKey) + 1)..Len(alt_raw) : alt_raw[k] \in Digits
            /\ \A k \in 1..n : alt_raw[k] # "\n"
         THEN n
         ELSE WidthAt(alt_raw, n + 1)

\* the element replace_image returns for the groups alt_raw and path
ImageElement(alt_raw, path) ==
    IF WidthAt(alt_raw, 1) > 0
    THEN <<ImageOpen>> \o _escape_xml(SubSeq(alt_raw, 1, WidthAt(alt_raw, 1)))
             \o <<ImageWidth>>
             \o SubSeq(alt_raw, WidthAt(alt_raw, 1) + Len(WidthKey) + 1, Len(alt_raw))
             \o <<ImageMid>> \o _escape_xml(basename(path)) \o <<ImageClose>>
    ELSE <<ImageOpen>> \o _escape_xml(alt_raw)
             \o <<ImageMid>> \o _escape_xml(basename(path)) \o <<ImageClose>>

\* the opening tag the link lambda writes for the group url
LinkTag(url) == <<LinkOpen>> \o _escape_xml(url) \o <<LinkMid>>

\* \[([^\]]{least,})\]\(([^)]+)\) at index k of s, where s[k] is the bracket:
\* the groups and the index after the match
BracketParen(s, k, least) ==
    LET a == SpanOf(Range(s) \ {"]"}, Drop(s, k))
        p == k + a + 3
        b == IF p <= Len(s) THEN SpanOf(Range(s) \ {")"}, Drop(s, p - 1)) ELSE 0
    IN  [ok |-> /\ k <= Len(s) /\ s[k] = "["
                /\ a >= least
                /\ p <= Len(s)
                /\ s[k + a + 1] = "]" /\ s[k + a + 2] = "("
                /\ b >= 1
                /\ p + b <= Len(s),
         g1 |-> SubSeq(s, k + 1, k + a),
         g2 |-> SubSeq(s, p, p + b - 1),
         end |-> p + b + 1]

\* the text, the image list and the log of emitted markup while one re.sub runs
Acc(out, imgs, log) == [out |-> out, images |-> imgs, emitted |-> log]

\* replace_image for one match
ImageFound(acc, m) ==
    Acc(acc.out \o ImageElement(m.g1, m.g2),
        Append(acc.images, m.g2),
        Append(acc.emitted, [markup |-> ImageElement(m.g1, m.g2), raw |-> m.g1 \o m.g2]))

\* the link lambda for one match
LinkFound(acc, m) ==
    Acc(acc.out \o LinkTag(m.g2) \o m.g1 \o <<LinkClose>>,
        acc.images,
        Append(acc.emitted, [markup |-> LinkTag(m.g2), raw |-> m.g2]))

Copied(acc, c) == Acc(Append(acc.out, c), acc.images, acc.emitted)

RECURSIVE SubImages(_, _, _)
\* re.sub(r'!\[([^\]]*)\]\(([^)]+)\)', replace_image, text) from index k on
SubImages(s, k, acc) ==
    IF k > Len(s) THEN acc
    ELSE IF s[k] = "!" /\ BracketParen(s, k + 1, 0).ok
         THEN SubImages(s, BracketParen(s, k + 1, 0).end,
                        ImageFound(acc, BracketParen(s, k + 1, 0)))
         ELSE SubImages(s, k + 1, Copied(acc, s[k]))

RECURSIVE SubLinks(_, _, _)
\* re.sub(r'\[([^\]]+)\]\(([^)]+)\)', lambda, text) from index k on
SubLinks(s, k, acc) ==
    IF k > Len(s) THEN acc
    ELSE IF BracketParen(s, k, 1).ok
         THEN SubLinks(s, BracketParen(s, k, 1).end, LinkFound(acc, BracketParen(s, k, 1)))
         ELSE SubLinks(s, k + 1, Copied(acc, s[k]))

\* s has the characters of d at index j
HasAt(s, j, d) == j + Len(d) - 1 <= Len(s) /\ SubSeq(s, j, j + Len(d) - 1) = d

RECURSIVE LazyClose(_, _, _, _)
\* the end of a lazy (.+?) that started before index j: the first index from j
\* on where the closing delimiter stands (for the underscore form: not followed
\* by a word character); 0 when a newline or the end of s comes first
LazyClose(s, j, close, word_bound) ==
    IF j + Len(close) - 1 > Len(s) THEN 0
    ELSE IF /\ HasAt(s, j, close)
            /\ word_bound => (j + Len(close) > Len(s) \/ ~ IsWord(s[j + Len(close)]))
         THEN j
         ELSE IF s[j] = "\n" THEN 0
         ELSE LazyClose(s, j + 1, close, word_bound)

\* the index of the closing delimiter of open (.+?) close matched at index k
\* (for the underscore form: not preceded by a word character); 0 without match
DelimMatch(s, k, d, word_bound) ==
    IF /\ HasAt(s, k, d)
       /\ k + Len(d) <= Len(s)
       /\ s[k + Len(d)] # "\n"
       /\ word_bound => (k = 1 \/ ~ IsWord(s[k - 1]))
    THEN LazyClose(s, k + Len(d) + 1, d, word_bound)
    ELSE 0

RECURSIVE SubDelim(_, _, _, _, _, _, _)
\* re.sub of a pattern  d(.+?)d  by  open \1 close, from index k on
SubDelim(s, k, out, d, word_bound, open, close) ==
    IF k > Len(s) THEN out
    ELSE IF DelimMatch(s, k, d, word_bound) > 0
         THEN SubDelim(s, DelimMatch(s, k, d, word_bound) + Len(d),
                       out \o <<open>>
                           \o SubSeq(s, k + Len(d), DelimMatch(s, k, d, word_bound) - 1)
                           \o <<close>>,
                       d, word_bound, open, close)
         ELSE SubDelim(s, k + 1, Append(out, s[k]), d, word_bound, open, close)

\* the length of a match of <br\s*/?> at index k of s; 0 without match
BreakAt(s, k) ==
    LET w == SpanOf(Whitespace, Drop(s, k + 2))
        slash == IF k + 3 + w <= Len(s) /\ s[k + 3 + w] = "/" THEN 1 ELSE 0
    IN  IF /\ HasAt(s, k, <<"<", "b", "r">>)
           /\ k + 3 + w + slash <= Len(s)
           /\ s[k + 3 + w + slash] = ">"
        THEN 4 + w + slash ELSE 0

RECURSIVE SubBreaks(_, _, _)
\* re.sub(r'<br\s*/?>', '<br/>', text) from index k on
SubBreaks(s, k, out) ==
    IF k > Len(s) THEN out
    ELSE IF BreakAt(s, k) > 0 THEN SubBreaks(s, k + BreakAt(s, k), Append(out, "<br/>"))
    ELSE SubBreaks(s, k + 1, Append(out, s[k]))

\* the stages of _convert_inline in the order of its statements
Stages ==
    <<"images", "links", "bold_star", "bold_under", "italic_star", "italic_under",
      "strike", "code", "br">>

\* the text after one stage that neither collects images nor emits attributes
StageText(stage, s) ==
    CASE stage = "bold_star" -> SubDelim(s, 1, <<>>, <<"*", "*">>, FALSE, "<strong>", "</strong>")
      [] stage = "bold_under" -> SubDelim(s, 1, <<>>, <<"_", "_">>, FALSE, "<strong>", "</strong>")
      [] stage = "italic_star" -> SubDelim(s, 1, <<>>, <<"*">>, FALSE, "<em>", "</em>")
      [] stage = "italic_under" -> SubDelim(s, 1, <<>>, <<"_">>, TRUE, "<em>", "</em>")
      [] stage = "strike" -> SubDelim(s, 1, <<>>, <<"~", "~">>, FALSE, "<del>", "</del>")
      [] stage = "code" -> SubDelim(s, 1, <<>>, <<BQ>>, FALSE, "<code>", "</code>")
      [] stage = "br" -> SubBreaks(s, 1, <<>>)

\* one statement of _convert_inline applied to the text s
StageResult(stage, s, imgs, log) ==
    IF stage = "images" THEN SubImages(s, 1, Acc(<<>>, imgs, log))
    ELSE IF stage = "links" THEN SubLinks(s, 1, Acc(<<>>, imgs, log))
    ELSE Acc(StageText(stage, s), imgs, log)

\* the pieces a line is put together from
Pieces ==
    { <<"!", "[", "a", "]", "(">>,
      <<"[", "t", "]", "(">>,
      <<")">>,
      <<"d", "/", "p">>,
      <<"*", "q", "*">>,
      <<"_", "_", "q", "_", "_">>,
      <<"&">>,
      <<"!", "[", "b", "|", "w", "i", "d", "t", "h", "=", "6", "]", "(", "e", ")">> }

RECURSIVE Concat(_)
\* the pieces joined
Concat(ps) == IF ps = <<>> THEN <<>> ELSE Head(ps) \o Concat(Tail(ps))

InlineIdle ==
    /\ inline_src = <<>> /\ inline_text = <<>> /\ images = <<>>
    /\ emitted = <<>> /\ stage_log = <<>> /\ ipc = "off"

\* convert() on a one-line text that is a paragraph: self.images = [] and the
\* call _convert_inline(line)
InlineInit ==
    /\ inline_src \in {Concat(ps) : ps \in SeqsUpTo(Pieces, MaxPieces) \ {<<>>}}
    /\ inline_text = inline_src
    /\ images = <<>> /\ emitted = <<>> /\ stage_log = <<>>
    /\ ipc = "run"

\* the assignments of one statement: text, and self.images through replace_image
StagesApplied(r) ==
    /\ inline_text' = r.out
    /\ images' = r.images
    /\ emitted' = r.emitted

\* the next statement of _convert_inline, which is the stage named
InlineStage(stage) ==
    /\ ipc = "run"
    /\ Len(stage_log) < Len(Stages)
    /\ Stages[Len(stage_log) + 1] = stage
    /\ StagesApplied(StageResult(stage, inline_text, images, emitted))
    /\ stage_log' = Append(stage_log, stage)
    /\ UNCHANGED <<inline_src, ipc>>

InlineImages == InlineStage("images")
InlineLinks == InlineStage("links")
InlineBoldStar == InlineStage("bold_star")
InlineBoldUnder == InlineStage("bold_under")
InlineItalicStar == InlineStage("italic_star")
InlineItalicUnder == InlineStage("italic_under")
InlineStrike == InlineStage("strike")
InlineCode == InlineStage("code")
InlineBreak == InlineStage("br")

\* return text, and convert returns the paragraph
InlineReturn ==
    /\ ipc = "run"
    /\ Len(stage_log) = Len(Stages)
    /\ ipc' = "done"
    /\ UNCHANGED <<inline_src, inline_text, images, emitted, stage_log>>

(***************************************************************************)
(* The collaborator calls of one atlas_doc_to_markdown: _download_media    *)
(* for media nodes and _fetch_page_title for inlineCard nodes              *)
(***************************************************************************)

\* bound: top-level nodes of a document with media and inlineCard nodes
MaxMediaNodes == 2

\* Python's None, a value no str equals
None == <<"None">>

\* the node shapes of the documents tried
Media(id, collection, alt) ==
    [type |-> "media", attrs |-> [id |-> id, collection |-> collection, alt |-> alt]]
InlineCard(url) == [type |-> "inlineCard", attrs |-> [url |-> url]]
Caption(t) == [type |-> "caption", content |-> <<TextNode(t)>>]
MediaSingle(children) == [type |-> "mediaSingle", content |-> children]
ParagraphOf(children) == [type |-> "paragraph", content |-> children]
HeadingOf(l, children) ==
    [type |-> "heading", attrs |-> [level |-> l], content |-> children]
CellOf(children) ==
    [type |-> "tableCell", attrs |-> [rowspan |-> 1, colspan |-> 1], content |-> children]
RowOf(cells) == [type |-> "tableRow", content |-> cells]

RECURSIVE RemoveAll(_, _)
\* s.replace(pat, '') for a non-empty pat
RemoveAll(s, pat) ==
    IF s = <<>> THEN <<>>
    ELSE IF startswith(s, pat) THEN RemoveAll(Drop(s, Len(pat)), pat)
    ELSE <<Head(s)>> \o RemoveAll(Tail(s), pat)

RECURSIVE quote(_)
\* urllib.parse.quote on the characters the file names use: letters, digits
\* and _ . - ~ / stay, a space becomes %20
quote(s) ==
    IF s = <<>> THEN <<>>
    ELSE (IF Head(s) = " " THEN <<"%", "2", "0">> ELSE <<Head(s)>>) \o quote(Tail(s))

ContentIdPrefix == <<"c", "o", "n", "t", "e", "n", "t", "I", "d", "-">>

\* f"../../images/{content_id}/{encoded_filename}", the path returned while
\* current_page_folder is not set
RelativePath(collection, filename) ==
    <<".", ".", "/", ".", ".", "/", "i", "m", "a", "g", "e", "s", "/">>
        \o RemoveAll(collection, ContentIdPrefix) \o <<"/">> \o quote(filename)

\* what the requests of one _download_media call meet: the attachment titled
\* alt_text is found and saved, no attachment matches, or a request or the
\* write raises
MediaOutcomes == {"saved", "no attachment", "raises"}

\* what the request of one _fetch_page_title call meets
TitleOutcomes == {"title", "no title", "raises"}

\* an exception that leaves a call instead of a value
Raised == <<"raised">>

\* a slip: the except clause of _download_media is left out
DownloadMediaUncaught(outcome, collection, alt_text) ==
    CASE outcome = "saved" -> RelativePath(collection, alt_text)
      [] outcome = "no attachment" -> None
      [] outcome = "raises" -> Raised

\* _download_media(media_id, collection, alt_text): the relative path, or None
\* when no attachment matches and when the try block raises
_download_media(outcome, collection, alt_text) ==
    CASE outcome = "saved" -> RelativePath(collection, alt_text)
      [] outcome = "no attachment" -> None
      [] outcome = "raises" -> None

\* the title every page of the remote site has
PageTitle == <<"T">>

\* _fetch_page_title(url): the title, or None without a title and when the try
\* block raises
_fetch_page_title(outcome) ==
    CASE outcome = "title" -> PageTitle
      [] outcome = "no title" -> None
      [] outcome = "raises" -> None

\* the value the k-th collaborator call of a visit returned; None while the
\* call has not been made
ResultAt(res, k) == IF k <= Len(res) THEN res[k] ELSE None

\* what a visit of a node yields: the text returned and the collaborator calls
\* made on the way, each with the path of its node below the visited node
Yield(text, calls) == [text |-> text, calls |-> calls]

Last(s) == s[Len(s)]

\* the inlineCard branch without preceding text and without a fetched title:
\* the last part of the url up to a '?', for urls of no known site and of at
\* most 50 characters
UrlTitle(url) == Head(split(Last(split(url, "/")), "?"))

\* f"[{label}]({url})"
CardLink(label, url) == <<"[">> \o label \o <<"]", "(">> \o url \o <<")">>

\* the labels that are not taken as a link title by themselves
SourceLabels == {<<"S", "o", "u", "r", "c", "e", ":">>, <<"S", "o", "u", "r", "c", "e">>}

\* the inlineCard branch of _extract_text_from_node
InlineCardYield(n, path, preceding, res, k) ==
    LET url == Get(Get(n, "attrs", <<>>), "url", <<>>)
        preceding_text == strip(preceding)
        page_title == ResultAt(res, k + 1)
        call == <<[kind |-> "title", node |-> path]>>
    IN  IF url = <<>> THEN Yield(<<>>, <<>>)
        ELSE IF preceding_text # <<>> /\ preceding_text \notin SourceLabels
        THEN Yield(CardLink(preceding_text, url), <<>>)
        ELSE IF page_title # None /\ page_title # <<>>
        THEN Yield((IF preceding_text # <<>> THEN preceding_text \o <<" ">> ELSE <<>>)
                       \o CardLink(page_title, url), call)
        ELSE IF preceding_text # <<>> THEN Yield(CardLink(preceding_text, url), call)
        ELSE Yield(CardLink(UrlTitle(url), url), call)

\* the media branch after the call: f"![{alt_text}]({image_path})" if image_path
MediaText(alt_text, image_path) ==
    IF image_path # None /\ image_path # <<>>
    THEN <<"!", "[">> \o alt_text \o <<"]", "(">> \o image_path \o <<")">>
    ELSE <<>>

\* the media branch of _extract_text_from_node
MediaYield(n, path, res, k) ==
    LET attrs == Get(n, "attrs", <<>>)
        media_id == Get(attrs, "id", <<>>)
        alt_text == Get(attrs, "alt", <<>>)
        collection == Get(attrs, "collection", <<>>)
    IN  IF media_id # <<>> /\ collection # <<>>
        THEN Yield(MediaText(alt_text, ResultAt(res, k + 1)),
                   <<[kind |-> "media", node |-> path]>>)
        ELSE Yield(<<>>, <<>>)

\* the yield of a loop after one more child: its part and its calls added
Merge(acc, w) == Yield(Append(acc.text, w.text), acc.calls \o w.calls)

\* whether the inlineCard children[j] takes the text child before it as its
\* link title
TakesLabel(children, j, text_parts) ==
    /\ children[j].type = "inlineCard" /\ j > 1
    /\ children[j - 1].type = "text"
    /\ text_parts # <<>>
    /\ strip(Get(children[j - 1], "text", <<>>)) # <<>>

\* text_parts.pop() before the link is appended
MergeLabel(acc, taken, w) ==
    Yield(Append(IF taken THEN SubSeq(acc.text, 1, Len(acc.text) - 1) ELSE acc.text, w.text),
          acc.calls \o w.calls)

\* media_text = ... and caption_text = ''.join(caption_parts)
MergeMedia(acc, w) == Yield(<<w.text, acc.text[2]>>, acc.calls \o w.calls)
MergeCaption(acc, w) == Yield(<<acc.text[1], join(<<>>, w.text)>>, acc.calls \o w.calls)

\* the return of the mediaSingle branch: the caption in italics on a line below
\* the image, or media_text alone
MediaSingleYield(w) ==
    Yield(IF w.text[1] # <<>> /\ w.text[2] # <<>>
          THEN w.text[1] \o <<"\n", "*">> \o w.text[2] \o <<"*">>
          ELSE w.text[1],
          w.calls)

\* the return of the branches that join their parts
JoinedYield(w) == Yield(JoinParts(w.text), w.calls)

RECURSIVE Walk(_, _, _, _, _)
RECURSIVE WalkChildren(_, _, _, _, _, _, _)
RECURSIVE WalkParagraph(_, _, _, _, _, _, _)
RECURSIVE WalkMediaSingle(_, _, _, _, _, _)

\* the loop over the children of a node that falls through to the recursion
\* and of a caption: acc holds the parts and the calls so far
WalkChildren(children, j, path, preceding, res, k, acc) ==
    IF j > Len(children) THEN acc
    ELSE WalkChildren(children, j + 1, path, preceding, res, k,
             Merge(acc, Walk(children[j], Append(path, j), preceding, res,
                             k + Len(acc.calls))))

\* the loop of the paragraph branch: an inlineCard right after a text child
\* with text takes that text as its link title and replaces its part
WalkParagraph(children, j, path, preceding, res, k, acc) ==
    IF j > Len(children) THEN acc
    ELSE WalkParagraph(children, j + 1, path, preceding, res, k,
             MergeLabel(acc, TakesLabel(children, j, acc.text),
                        Walk(children[j], Append(path, j),
                             IF TakesLabel(children, j, acc.text)
                             THEN strip(Get(children[j - 1], "text", <<>>))
                             ELSE preceding,
                             res, k + Len(acc.calls))))

\* the loop of the mediaSingle branch: acc.text holds media_text and
\* caption_text
WalkMediaSingle(children, j, path, res, k, acc) ==
    IF j > Len(children) THEN acc
    ELSE IF children[j].type = "media"
    THEN WalkMediaSingle(children, j + 1, path, res, k,
             MergeMedia(acc, Walk(children[j], Append(path, j), <<>>, res,
                                  k + Len(acc.calls))))
    ELSE IF children[j].type = "caption"
    THEN WalkMediaSingle(children, j + 1, path, res, k,
             MergeCaption(acc, WalkChildren(Get(children[j], "content", <<>>), 1,
                                            Append(path, j), <<>>, res,
                                            k + Len(acc.calls), Yield(<<>>, <<>>))))
    ELSE WalkMediaSingle(children, j + 1, path, res, k, acc)

\* _extract_text_from_node(n, context) when the collaborator calls of the visit
\* return res[k + 1], res[k + 2], ... in turn
Walk(n, path, preceding, res, k) ==
    CASE n.type = "text" -> Yield(ExtractTextNode(n), <<>>)
      [] n.type = "inlineCard" -> InlineCardYield(n, path, preceding, res, k)
      [] n.type = "media" -> MediaYield(n, path, res, k)
      [] n.type = "mediaSingle" ->
            MediaSingleYield(WalkMediaSingle(Get(n, "content", <<>>), 1, path, res, k,
                                             Yield(<<<<>>, <<>>>>, <<>>)))
      [] n.type = "paragraph" ->
            JoinedYield(WalkParagraph(Get(n, "content", <<>>), 1, path, preceding, res, k,
                                      Yield(<<>>, <<>>)))
      [] OTHER ->
            JoinedYield(WalkChildren(Get(n, "content", <<>>), 1, path, preceding, res, k,
                                     Yield(<<>>, <<>>)))

\* content_parts after one more child of a cell: a paragraph's text always,
\* the text of another child when it is not blank
MergeCell(acc, child, w) ==
    Yield(IF child.type = "paragraph" \/ strip(w.text) # <<>>
          THEN Append(acc.text, w.text) ELSE acc.text,
          acc.calls \o w.calls)

RECURSIVE WalkCell(_, _, _, _, _, _)
\* the loop of _extract_cell_content over the children of a cell, for paragraph
\* children and for children of the types its last branch takes
WalkCell(children, j, path, res, k, acc) ==
    IF j > Len(children) THEN acc
    ELSE WalkCell(children, j + 1, path, res, k,
             MergeCell(acc, children[j],
                       Walk(children[j], Append(path, j), <<>>, res, k + Len(acc.calls))))

\* the cell with the string _extract_cell_content returns for it
MergeResolved(acc, cell, w) ==
    Yield(Append(acc.text,
                 [type |-> cell.type, attrs |-> cell.attrs,
                  text |-> join(<<"<", "b", "r", ">">>, w.text)]),
          acc.calls \o w.calls)

RECURSIVE WalkCells(_, _, _, _, _, _)
\* the cells of one row, each with its extracted content, in the order
\* _convert_table_to_markdown extracts them
WalkCells(cells, j, path, res, k, acc) ==
    IF j > Len(cells) THEN acc
    ELSE IF cells[j].type \in {"tableCell", "tableHeader"}
    THEN WalkCells(cells, j + 1, path, res, k,
             MergeResolved(acc, cells[j],
                           WalkCell(Get(cells[j], "content", <<>>), 1, Append(path, j), res,
                                    k + Len(acc.calls), Yield(<<>>, <<>>))))
    ELSE WalkCells(cells, j + 1, path, res, k, Yield(Append(acc.text, cells[j]), acc.calls))

MergeRow(acc, w) == Yield(Append(acc.text, RowOf(w.text)), acc.calls \o w.calls)

RECURSIVE WalkRows(_, _, _, _, _)
\* the children of a table node, the cells of its rows with their content
WalkRows(trs, j, res, k, acc) ==
    IF j > Len(trs) THEN acc
    ELSE IF trs[j].type = "tableRow"
    THEN WalkRows(trs, j + 1, res, k,
             MergeRow(acc, WalkCells(Get(trs[j], "content", <<>>), 1, <<j>>, res,
                                     k + Len(acc.calls), Yield(<<>>, <<>>))))
    ELSE WalkRows(trs, j + 1, res, k, Yield(Append(acc.text, trs[j]), acc.calls))

\* the first pass on one top-level heading: the entry appended to headings
HeadingYield(n, w) ==
    Yield(IF strip(w.text) # <<>>
          THEN <<[level |-> Get(Get(n, "attrs", <<>>), "level", 1), text |-> strip(w.text)]>>
          ELSE <<>>,
          w.calls)

\* the body of the first loop of atlas_doc_to_markdown for one node: the
\* entries it appends and the calls it makes
PrePassYield(n, res) ==
    IF n.type = "heading" THEN HeadingYield(n, Walk(n, <<>>, <<>>, res, 0))
    ELSE Yield(<<>>, <<>>)

\* the paragraph, heading and mediaSingle branches of the second loop
TextYield(n, w) ==
    Yield(IF strip(w.text) = <<>> THEN <<>>
          ELSE IF n.type = "heading"
          THEN <<Block("heading", "top", n,
                       HeadingLine(Get(Get(n, "attrs", <<>>), "level", 1), w.text))>>
          ELSE <<Block(IF n.type = "paragraph" THEN "p" ELSE "media", "top", n, w.text)>>,
          w.calls)

\* the table branch of the second loop
TableYield(n, w) == Yield(TableBlock(n, ConvertTable(Table(w.text))), w.calls)

\* one iteration of the loop of _convert_content_to_markdown_with_toc: the
\* blocks it appends and the calls it makes
RenderYield(n, hs, res) ==
    CASE n.type \in {"paragraph", "heading", "mediaSingle"} ->
            TextYield(n, Walk(n, <<>>, <<>>, res, 0))
      [] n.type = "table" ->
            TableYield(n, WalkRows(Get(n, "content", <<>>), 1, res, 0, Yield(<<>>, <<>>)))
      [] n.type = "extension" -> Yield(ExtensionBlocks(n, hs), <<>>)
      [] OTHER -> Yield(<<>>, <<>>)

RECURSIVE NodeAt(_, _)
\* the descendant of n at a path of child indices
NodeAt(n, path) == IF path = <<>> THEN n ELSE NodeAt(n.content[Head(path)], Tail(path))

SampleMedia == Media(<<"m">>, ContentIdPrefix \o <<"7">>, <<"x">>)
SampleCard == InlineCard(<<"u", "/", "k">>)

\* the top-level nodes of the documents tried: media and inlineCard nodes in a
\* paragraph, in a heading, in a mediaSingle with a caption and in a table
\* cell, nodes that make no call, and the toc extension
MediaNodes ==
    { ParagraphOf(<<TextNode(<<"a">>), SampleMedia>>),
      ParagraphOf(<<SampleCard>>),
      ParagraphOf(<<TextNode(<<"a">>), SampleCard>>),
      ParagraphOf(<<Media(<<"m">>, <<>>, <<"x">>)>>),
      HeadingOf(1, <<TextNode(<<"h">>), SampleMedia>>),
      HeadingOf(2, <<SampleCard>>),
      MediaSingle(<<SampleMedia, Caption(<<"c">>)>>),
      Table(<<RowOf(<<CellOf(<<MediaSingle(<<SampleMedia>>)>>)>>)>>),
      Toc }

\* the texts in front of an inlineCard: a label, a label in white space, the
\* two source labels and a blank text
CardLabels ==
    {<<"a">>, <<" ", "a", " ">>, <<"S", "o", "u", "r", "c", "e">>,
     <<"S", "o", "u", "r", "c", "e", ":">>, <<" ">>}

\* the url attributes of an inlineCard: empty and a page url
CardUrls == {<<>>, <<"u", "/", "k">>}

\* paragraphs with a text child in front of an inlineCard, alone, after another
\* text, before another text and before a second card
CardParagraphs ==
    UNION {{ ParagraphOf(<<TextNode(t), InlineCard(u)>>),
             ParagraphOf(<<TextNode(<<"b">>), TextNode(t), InlineCard(u)>>),
             ParagraphOf(<<TextNode(t), InlineCard(u), TextNode(<<"b">>)>>),
             ParagraphOf(<<TextNode(t), InlineCard(u), InlineCard(u)>>) } :
           t \in CardLabels, u \in CardUrls}

\* atlas_doc_to_markdown on a doc of one such paragraph, before the first pass
CardInit ==
    /\ doc_content \in {<<p>> : p \in CardParagraphs}
    /\ doc_headings = <<>> /\ doc_markdown = <<>>
    /\ visit_index = 0 /\ visiting = FALSE /\ returned = <<>>
    /\ call_log = <<>> /\ visit_log = <<>> /\ doc_text = <<>> /\ pass = "prepass"

MediaIdle ==
    /\ doc_content = <<>> /\ doc_headings = <<>> /\ doc_markdown = <<>>
    /\ visit_index = 0 /\ visiting = FALSE /\ returned = <<>>
    /\ call_log = <<>> /\ visit_log = <<>> /\ doc_text = <<>> /\ pass = "off"

\* atlas_doc_to_markdown on a parsed doc node, before the first pass
MediaInit ==
    /\ doc_content \in SeqsUpTo(MediaNodes, MaxMediaNodes) \ {<<>>}
    /\ doc_headings = <<>> /\ doc_markdown = <<>>
    /\ visit_index = 0 /\ visiting = FALSE /\ returned = <<>>
    /\ call_log = <<>> /\ visit_log = <<>> /\ doc_text = <<>> /\ pass = "prepass"

\* the calls the visit under way makes
VisitCalls ==
    IF pass = "prepass" THEN PrePassYield(doc_content[visit_index + 1], returned).calls
    ELSE RenderYield(doc_content[visit_index + 1], doc_headings, returned).calls

\* the first loop passes over a node that is no heading
PrePassSkip ==
    /\ pass = "prepass" /\ ~visiting
    /\ visit_index < Len(doc_content)
    /\ doc_content[visit_index + 1].type # "heading"
    /\ visit_index' = visit_index + 1
    /\ UNCHANGED <<doc_content, doc_headings, doc_markdown, visiting, returned,
                   call_log, visit_log, doc_text, pass>>

\* the first loop calls _extract_text_from_node on a top-level heading
PrePassHeading ==
    /\ pass = "prepass" /\ ~visiting
    /\ visit_index < Len(doc_content)
    /\ doc_content[visit_index + 1].type = "heading"
    /\ visiting' = TRUE
    /\ returned' = <<>>
    /\ UNCHANGED <<doc_content, doc_headings, doc_markdown, visit_index,
                   call_log, visit_log, doc_text, pass>>

\* the next collaborator call of the visit under way is made and returns value,
\* or leaves with an exception that no frame up to the caller catches
CollaboratorCall(kind, outcome, value) ==
    /\ pass \in {"prepass", "render"} /\ visiting
    /\ Len(returned) < Len(VisitCalls)
    /\ VisitCalls[Len(returned) + 1].kind = kind
    /\ call_log' = Append(call_log,
           [kind |-> kind, pass |-> pass, outcome |-> outcome,
            node |-> <<visit_index + 1>> \o VisitCalls[Len(returned) + 1].node])
    /\ IF value = Raised
       THEN pass' = "raised" /\ UNCHANGED returned
       ELSE returned' = Append(returned, value) /\ UNCHANGED pass
    /\ UNCHANGED <<doc_content, doc_headings, doc_markdown, visit_index, visiting,
                   visit_log, doc_text>>

\* the media node the next call is for
NextMedia ==
    NodeAt(doc_content[visit_index + 1], VisitCalls[Len(returned) + 1].node)

\* the call self._download_media(media_id, collection, alt_text) of the media
\* branch
DownloadMedia ==
    \E outcome \in MediaOutcomes :
        /\ visiting /\ Len(returned) < Len(VisitCalls)
        /\ VisitCalls[Len(returned) + 1].kind = "media"
        /\ CollaboratorCall("media", outcome,
               _download_media(outcome, NextMedia.attrs.collection, NextMedia.attrs.alt))

\* the call self._fetch_page_title(url) of the inlineCard branch
FetchPageTitle ==
    \E outcome \in TitleOutcomes :
        CollaboratorCall("title", outcome, _fetch_page_title(outcome))

\* the first loop appends the heading it extracted
PrePassCollect ==
    /\ pass = "prepass" /\ visiting
    /\ Len(returned) = Len(VisitCalls)
    /\ doc_headings' = doc_headings
           \o PrePassYield(doc_content[visit_index + 1], returned).text
    /\ visit_log' = Append(visit_log,
           [pass |-> pass, index |-> visit_index + 1, returned |-> returned])
    /\ visit_index' = visit_index + 1
    /\ visiting' = FALSE
    /\ returned' = <<>>
    /\ UNCHANGED <<doc_content, doc_markdown, call_log, doc_text, pass>>

\* the call of _convert_content_to_markdown_with_toc(content, headings)
PrePassReturn ==
    /\ pass = "prepass" /\ ~visiting
    /\ visit_index >= Len(doc_content)
    /\ pass' = "render"
    /\ visit_index' = 0
    /\ UNCHANGED <<doc_content, doc_headings, doc_markdown, visiting, returned,
                   call_log, visit_log, doc_text>>

\* the second loop takes up the next node
RenderVisit ==
    /\ pass = "render" /\ ~visiting
    /\ visit_index < Len(doc_content)
    /\ visiting' = TRUE
    /\ returned' = <<>>
    /\ UNCHANGED <<doc_content, doc_headings, doc_markdown, visit_index,
                   call_log, visit_log, doc_text, pass>>

\* the strings the blocks bs add to the list markdown, each with the index of
\* its node
Entries(bs, index) == [b \in 1..Len(bs) |-> [index |-> index, text |-> bs[b].text]]

\* the second loop appends what the node renders to
RenderAppend ==
    /\ pass = "render" /\ visiting
    /\ Len(returned) = Len(VisitCalls)
    /\ doc_markdown' = doc_markdown
           \o Entries(RenderYield(doc_content[visit_index + 1], doc_headings, returned).text,
                      visit_index + 1)
    /\ visit_log' = Append(visit_log,
           [pass |-> pass, index |-> visit_index + 1, returned |-> returned])
    /\ visit_index' = visit_index + 1
    /\ visiting' = FALSE
    /\ returned' = <<>>
    /\ UNCHANGED <<doc_content, doc_headings, call_log, doc_text, pass>>

\* return '\n\n'.join(filter(None, markdown)), handed on by atlas_doc_to_markdown
MediaReturn ==
    /\ pass = "render" /\ ~visiting
    /\ visit_index >= Len(doc_content)
    /\ doc_text' = join(<<"\n", "\n">>,
           SelectSeq([b \in 1..Len(doc_markdown) |-> doc_markdown[b].text],
                     LAMBDA t : t # <<>>))
    /\ pass' = "done"
    /\ UNCHANGED <<doc_content, doc_headings, doc_markdown, visit_index, visiting,
                   returned, call_log, visit_log>>

(***************************************************************************)
(* download_page: the serialized tree of a page is parsed, rendered and    *)
(* saved                                                                   *)
(***************************************************************************)

\* bound: paragraphs of a serialized document
MaxParagraphs == 2

\* "Error: Invalid Atlas JSON format"
ErrorMessage ==
    <<"E", "r", "r", "o", "r", ":", " ", "I", "n", "v", "a", "l", "i", "d", " ",
      "A", "t", "l", "a", "s", " ", "J", "S", "O", "N", " ", "f", "o", "r", "m", "a", "t">>

\* "Content could not be retrieved or converted.", one token
NoContentMessage == <<"content-could-not-be-retrieved">>

\* a serialized tree is a sequence of JSON tokens: the punctuation marks and
\* the string literals the documents use
StringTokens ==
    {"\"type\"", "\"content\"", "\"text\"", "\"marks\"", "\"doc\"", "\"paragraph\"",
     "\"a\"", "\"Error: Invalid Atlas JSON format\""}

\* the key a string literal stands for when it names a member
KeyOf(tok) ==
    CASE tok = "\"type\"" -> "type" [] tok = "\"content\"" -> "content"
      [] tok = "\"text\"" -> "text" [] tok = "\"marks\"" -> "marks"
      [] tok = "\"doc\"" -> "doc" [] tok = "\"paragraph\"" -> "paragraph"
      [] tok = "\"a\"" -> "a"
      [] tok = "\"Error: Invalid Atlas JSON format\"" -> "Error: Invalid Atlas JSON format"

\* the str a string literal is loaded as: the text of a text node as its
\* characters, every other literal as the name it spells
StringOf(tok) ==
    CASE tok = "\"a\"" -> <<"a">>
      [] tok = "\"Error: Invalid Atlas JSON format\"" -> ErrorMessage
      [] OTHER -> KeyOf(tok)

\* the literal of a text
LiteralOf(t) == IF t = ErrorMessage THEN "\"Error: Invalid Atlas JSON format\"" ELSE "\"a\""

\* the texts of the paragraphs of the documents tried
SampleTexts == {<<"a">>, ErrorMessage}

\* the serialization of a doc node whose children are paragraphs with one
\* unmarked text each, as the body field of a page holds it
DumpParagraph(t) ==
    <<"{", "\"type\"", ":", "\"paragraph\"", ",", "\"content\"", ":", "[",
      "{", "\"type\"", ":", "\"text\"", ",", "\"text\"", ":", LiteralOf(t), ",",
      "\"marks\"", ":", "[", "]", "}", "]", "}">>
DumpDoc(ts) ==
    <<"{", "\"type\"", ":", "\"doc\"", ",", "\"content\"", ":", "[">>
        \o join(<<",">>, [k \in 1..Len(ts) |-> DumpParagraph(ts[k])]) \o <<"]", "}">>

\* the outcome of parsing from a position: JSONDecodeError, or a value and the
\* position behind it
Fail == [ok |-> FALSE]
Parsed(v, next) == [ok |-> TRUE, value |-> v, next |-> next]

\* obj[key] = v on a dict
Put(obj, key, v) == [x \in DOMAIN obj \cup {key} |-> IF x = key THEN v ELSE obj[x]]

RECURSIVE ParseValue(_, _)
RECURSIVE ParseMembers(_, _, _)
RECURSIVE AfterMember(_, _, _, _)
RECURSIVE ParseElements(_, _, _)
RECURSIVE AfterElement(_, _, _)

\* behind a member of an object: '}' closes it, ',' asks for another member
AfterMember(ts, key, obj, v) ==
    IF ~v.ok THEN Fail
    ELSE IF v.next > Len(ts) THEN Fail
    ELSE IF ts[v.next] = "}" THEN Parsed(Put(obj, key, v.value), v.next + 1)
    ELSE IF ts[v.next] = "," THEN ParseMembers(ts, v.next + 1, Put(obj, key, v.value))
    ELSE Fail

\* a member of an object: a string literal, ':' and a value
ParseMembers(ts, p, obj) ==
    IF p + 1 > Len(ts) THEN Fail
    ELSE IF ts[p] \notin StringTokens \/ ts[p + 1] # ":" THEN Fail
    ELSE AfterMember(ts, KeyOf(ts[p]), obj, ParseValue(ts, p + 2))

\* behind an element of an array: ']' closes it, ',' asks for another element
AfterElement(ts, arr, v) ==
    IF ~v.ok THEN Fail
    ELSE IF v.next > Len(ts) THEN Fail
    ELSE IF ts[v.next] = "]" THEN Parsed(Append(arr, v.value), v.next + 1)
    ELSE IF ts[v.next] = "," THEN ParseElements(ts, v.next + 1, Append(arr, v.value))
    ELSE Fail

ParseElements(ts, p, arr) == AfterElement(ts, arr, ParseValue(ts, p))

\* a JSON value: a string literal, an object or an array
ParseValue(ts, p) ==
    IF p > Len(ts) THEN Fail
    ELSE IF ts[p] \in StringTokens THEN Parsed(StringOf(ts[p]), p + 1)
    ELSE IF ts[p] = "{"
    THEN IF p + 1 <= Len(ts) /\ ts[p + 1] = "}" THEN Parsed(<<>>, p + 2)
         ELSE ParseMembers(ts, p + 1, <<>>)
    ELSE IF ts[p] = "["
    THEN IF p + 1 <= Len(ts) /\ ts[p + 1] = "]" THEN Parsed(<<>>, p + 2)
         ELSE ParseElements(ts, p + 1, <<>>)
    ELSE Fail

\* the value must take up the whole input
WholeInput(ts, r) == IF r.ok /\ r.next = Len(ts) + 1 THEN r ELSE Fail

\* json.loads(s): the value, or JSONDecodeError
loads(ts) == WholeInput(ts, ParseValue(ts, 1))

RECURSIVE DocBlocks(_, _)
\* the list markdown after the second pass over the nodes
DocBlocks(nodes, hs) ==
    IF nodes = <<>> THEN <<>>
    ELSE LET bs == NodeBlocks(Head(nodes), hs)
         IN  [b \in 1..Len(bs) |-> bs[b].text] \o DocBlocks(Tail(nodes), hs)

\* the two passes of atlas_doc_to_markdown over the children of a doc node
RenderContent(nodes) ==
    join(<<"\n", "\n">>,
         SelectSeq(DocBlocks(nodes, CollectedHeadings(nodes)), LAMBDA b : b # <<>>))

\* atlas_doc_to_markdown(atlas_content) for a str argument, r being the
\* outcome of json.loads
MarkdownOf(r) ==
    IF ~r.ok THEN ErrorMessage
    ELSE IF Get(r.value, "type", "") = "doc"
    THEN RenderContent(Get(r.value, "content", <<>>))
    ELSE <<>>

atlas_doc_to_markdown(ts) == MarkdownOf(loads(ts))

\* the input without its k-th token
Without(ts, k) == SubSeq(ts, 1, k - 1) \o SubSeq(ts, k + 1, Len(ts))

\* the serializations of the documents tried
Serialized == {DumpDoc(ts) : ts \in SeqsUpTo(SampleTexts, MaxParagraphs)}

\* the body values tried: every serialization, every serialization cut short
\* or with one token lost, and the empty value
PageValues ==
    Serialized
    \cup UNION {{SubSeq(ts, 1, k) : k \in 0..Len(ts)} : ts \in Serialized}
    \cup UNION {{Without(ts, k) : k \in 1..Len(ts)} : ts \in Serialized}

\* f"# {title}\n\n ... ---\n\n{content}{comments_section}\n\n---\n\n ...", for
\* a page without comments; the metadata lines and the footer are one token each
MarkdownContent(title, body) ==
    <<"#", " ">> \o title \o <<"\n", "\n", "metadata", "\n", "\n", "-", "-", "-", "\n", "\n">>
        \o body \o <<"\n", "\n", "-", "-", "-", "\n", "\n", "footer">>

PageTitleText == <<"t">>
PageId == "1"

DownloadIdle ==
    /\ page_data = None /\ page_content = <<>> /\ saved_files = {}
    /\ downloaded_count = 0 /\ failed_count = 0 /\ manifest = {}
    /\ success = FALSE /\ dpc = "off"

\* download_page(page_info) behind the filters, when get_page_content has
\* returned: None, or the page with the value of its atlas_doc_format body
DownloadInit ==
    /\ page_data \in {None} \cup PageValues
    /\ page_content = <<>> /\ saved_files = {}
    /\ downloaded_count = 0 /\ failed_count = 0 /\ manifest = {}
    /\ success = FALSE /\ dpc = "fetched"

\* if not page_data: the page is counted as failed
DownloadNoPage ==
    /\ dpc = "fetched"
    /\ page_data = None
    /\ failed_count' = failed_count + 1
    /\ success' = FALSE
    /\ dpc' = "done"
    /\ UNCHANGED <<page_data, page_content, saved_files, downloaded_count, manifest>>

\* content = self.atlas_doc_to_markdown(atlas_body['value'])
PrepareContent ==
    /\ dpc = "fetched"
    /\ page_data # None /\ page_data # <<>>
    /\ page_content' = atlas_doc_to_markdown(page_data)
    /\ dpc' = "save"
    /\ UNCHANGED <<page_data, saved_files, downloaded_count, failed_count, manifest, success>>

\* the else branch: the body has no value
PrepareNoBody ==
    /\ dpc = "fetched"
    /\ page_data = <<>>
    /\ page_content' = NoContentMessage
    /\ dpc' = "save"
    /\ UNCHANGED <<page_data, saved_files, downloaded_count, failed_count, manifest, success>>

\* the file is written, the page counted and entered in the manifest
SaveFile ==
    /\ dpc = "save"
    /\ saved_files' = saved_files \cup {MarkdownContent(PageTitleText, page_content)}
    /\ downloaded_count' = downloaded_count + 1
    /\ manifest' = manifest \cup {PageId}
    /\ success' = TRUE
    /\ dpc' = "done"
    /\ UNCHANGED <<page_data, page_content, failed_count>>

\* open or write raises: the page is counted as failed
SaveFileFails ==
    /\ dpc = "save"
    /\ failed_count' = failed_count + 1
    /\ success' = FALSE
    /\ dpc' = "done"
    /\ UNCHANGED <<page_data, page_content, saved_files, downloaded_count, manifest>>

(***************************************************************************)
(* Two conversions whose steps interleave: convert() resets self.images,   *)
(* _convert_inline appends to it, upload() reads it after the return       *)
(***************************************************************************)

\* bound: lines of the text of one conversion
MaxRunLines == 2

\* the conversions and the converter instances
Runs == {1, 2}
Converters == {1, 2}

\* the lines of the texts tried, each a paragraph
RunLineSamples ==
    { <<"!", "[", "a", "]", "(", "d", "/", "p", ")">>,
      <<"x", "!", "[", "b", "]", "(", "e", ")", "!", "[", "a", "]", "(", "f", ")">>,
      <<"x">> }

RECURSIVE ImagePathsOf(_)
\* the paths replace_image appends, in order, while convert() goes through
\* the lines
ImagePathsOf(ls) ==
    IF ls = <<>> THEN <<>>
    ELSE SubImages(Head(ls), 1, Acc(<<>>, <<>>, <<>>)).images \o ImagePathsOf(Tail(ls))

SharedIdle ==
    /\ heap = <<>> /\ converter_images = <<>> /\ run_lines = <<>>
    /\ run_converter = <<>> /\ run_pending = <<>> /\ run_appended = <<>>
    /\ image_refs = <<>> /\ run_pc = <<>>

\* MarkdownToStorageConverter.__init__ for each converter: an empty list of
\* its own; the first conversion runs on converter 1, the second on that same
\* instance or on its own
SharedInit ==
    /\ heap = [c \in Converters |-> <<>>]
    /\ converter_images = [c \in Converters |-> c]
    /\ run_lines \in [Runs -> SeqsUpTo(RunLineSamples, MaxRunLines) \ {<<>>}]
    /\ run_converter \in {[r \in Runs |-> 1], [r \in Runs |-> r]}
    /\ run_pending = [r \in Runs |-> <<>>]
    /\ run_appended = [r \in Runs |-> <<>>]
    /\ image_refs = [r \in Runs |-> 0]
    /\ run_pc = [r \in Runs |-> "idle"]

\* self.images = []: the attribute is bound to a new empty list
ConvertStart(r) ==
    /\ run_pc[r] = "idle"
    /\ heap' = Append(heap, <<>>)
    /\ converter_images' = [converter_images EXCEPT ![run_converter[r]] = Len(heap) + 1]
    /\ run_pending' = [run_pending EXCEPT ![r] = ImagePathsOf(run_lines[r])]
    /\ run_pc' = [run_pc EXCEPT ![r] = "running"]
    /\ UNCHANGED <<run_lines, run_converter, run_appended, image_refs>>

\* self.images.append(path) in replace_image, for the next image of the text
AppendImage(r) ==
    /\ run_pc[r] = "running"
    /\ run_pending[r] # <<>>
    /\ heap' = [heap EXCEPT ![converter_images[run_converter[r]]] =
                   Append(@, Head(run_pending[r]))]
    /\ run_appended' = [run_appended EXCEPT ![r] = Append(@, Head(run_pending[r]))]
    /\ run_pending' = [run_pending EXCEPT ![r] = Tail(@)]
    /\ UNCHANGED <<converter_images, run_lines, run_converter, image_refs, run_pc>>

\* convert() returns the markup
ConvertReturns(r) ==
    /\ run_pc[r] = "running"
    /\ run_pending[r] = <<>>
    /\ run_pc' = [run_pc EXCEPT ![r] = "returned"]
    /\ UNCHANGED <<heap, converter_images, run_lines, run_converter, run_pending,
                   run_appended, image_refs>>

\* image_refs = self.converter.images: the list the attribute is bound to now
ReadImages(r) ==
    /\ run_pc[r] = "returned"
    /\ image_refs' = [image_refs EXCEPT ![r] = converter_images[run_converter[r]]]
    /\ run_pc' = [run_pc EXCEPT ![r] = "read"]
    /\ UNCHANGED <<heap, converter_images, run_lines, run_converter, run_pending,
                   run_appended>>

Start == \E r \in Runs : ConvertStart(r)
AppendPath == \E r \in Runs : AppendImage(r)
Return == \E r \in Runs : ConvertReturns(r)
Read == \E r \in Runs : ReadImages(r)

(***************************************************************************)
(* ConfluenceUploader.upload_attachment                                    *)
(***************************************************************************)

\* bound: the largest file size in bytes
MaxSize == 2

\* the value of a decimal digit
DigitValue(c) ==
    CASE c = "0" -> 0 [] c = "1" -> 1 [] c = "2" -> 2 [] c = "3" -> 3 [] c = "4" -> 4
      [] c = "5" -> 5 [] c = "6" -> 6 [] c = "7" -> 7 [] c = "8" -> 8 [] c = "9" -> 9

RECURSIVE ParseInt(_)
\* int(s) for a str of decimal digits, and the value of an int written in
\* those digits
ParseInt(s) ==
    IF s = <<>> THEN 0 ELSE 10 * ParseInt(SubSeq(s, 1, Len(s) - 1)) + DigitValue(s[Len(s)])

\* extensions.fileSize of an attachment: an int or a str of digits; absent,
\* get() gives the default -1
FileSize(ty, n) == [present |-> TRUE, type |-> ty, digits |-> ToStr(n)]
NoFileSize == [present |-> FALSE, type |-> "int", digits |-> <<>>]
FileSizes == {NoFileSize} \cup {FileSize(ty, n) : ty \in {"int", "str"}, n \in 1..MaxSize}

\* the paths and the attachment titles tried
FilePaths == {<<"d", "/", "f">>, <<"g">>}
Titles == {<<"f">>, <<"h">>}

\* the values of existing_attachments: None, or the dict of
\* get_existing_attachments, title -> attachment, given by its attachments
NoAttachments == [given |-> FALSE, atts |-> {}]
AttachmentMaps ==
    {NoAttachments}
    \cup {[given |-> TRUE, atts |-> {[title |-> t, fileSize |-> sizes[t]] : t \in ts}] :
             ts \in SUBSET Titles, sizes \in [Titles -> FileSizes]}

\* existing_attachments[filename]
AttachmentOf(existing, filename) == CHOOSE a \in existing.atts : a.title = filename

\* a slip: an attachment of that name is enough to skip
SkipsByName(existing, filename, size) ==
    /\ existing.given /\ existing.atts # {}
    /\ \E a \in existing.atts : a.title = filename

\* the test of lines 449-452: existing_attachments is not empty, holds the
\* file name, remote_size is not the default and int(remote_size) equals the
\* local size
Skips(existing, filename, size) ==
    /\ existing.given /\ existing.atts # {}
    /\ \E a \in existing.atts : a.title = filename
    /\ AttachmentOf(existing, filename).fileSize.present
    /\ ParseInt(AttachmentOf(existing, filename).fileSize.digits) = size

AttachIdle ==
    /\ filepath = <<>> /\ local_size = 0 /\ existing_attachments = NoAttachments
    /\ post_log = <<>> /\ uploaded = "none" /\ apc = "off"

\* upload_attachment(page_id, filepath, existing_attachments); local_size 0
\* stands for a path that is no file
AttachInit ==
    /\ filepath \in FilePaths
    /\ local_size \in 0..MaxSize
    /\ existing_attachments \in AttachmentMaps
    /\ post_log = <<>> /\ uploaded = "none" /\ apc = "call"

\* if not os.path.isfile(filepath): return False
AttachNoFile ==
    /\ apc = "call"
    /\ local_size = 0
    /\ uploaded' = "False"
    /\ apc' = "done"
    /\ UNCHANGED <<filepath, local_size, existing_attachments, post_log>>

\* the attachment exists with the same size: return False
AttachSkip ==
    /\ apc = "call"
    /\ local_size # 0
    /\ Skips(existing_attachments, basename(filepath), local_size)
    /\ uploaded' = "False"
    /\ apc' = "done"
    /\ UNCHANGED <<filepath, local_size, existing_attachments, post_log>>

\* self._api_request('POST', url, headers=headers, files=files), which gives
\* a response or raises
AttachPost ==
    /\ apc = "call"
    /\ local_size # 0
    /\ ~Skips(existing_attachments, basename(filepath), local_size)
    /\ post_log' = Append(post_log, [method |-> "POST", filename |-> basename(filepath)])
    /\ apc' \in {"posted", "raised"}
    /\ UNCHANGED <<filepath, local_size, existing_attachments, uploaded>>

\* return True
AttachUploaded ==
    /\ apc = "posted"
    /\ uploaded' = "True"
    /\ apc' = "done"
    /\ UNCHANGED <<filepath, local_size, existing_attachments, post_log>>

(***************************************************************************)
(* main, ConfluenceDownloader.__init__, download_all and download_page:    *)
(* runs of the downloader over the pages of a space, with the manifest     *)
(***************************************************************************)

\* bound: the highest version number of a page
MaxVersion == 2

\* bound: the number of runs of main
MaxRuns == 2

\* the pages of the space, in the order the listing gives them, and their titles
PageIds == <<"p", "q">>
TitleOf(id) == IF id = "p" THEN <<"a">> ELSE <<"j">>

\* SKIP_JAPANESE, SKIP_PATTERNS and INCLUDE_PATTERNS of the configuration
Configs ==
    { [SKIP_JAPANESE |-> FALSE, SKIP_PATTERNS |-> {<<"j">>}, INCLUDE_PATTERNS |-> {}],
      [SKIP_JAPANESE |-> TRUE,  SKIP_PATTERNS |-> {<<"j">>}, INCLUDE_PATTERNS |-> {}],
      [SKIP_JAPANESE |-> FALSE, SKIP_PATTERNS |-> {},        INCLUDE_PATTERNS |-> {<<"a">>}] }

\* version.when of a page at version v, as the server writes it: an ISO
\* date, a date without 'T', a string with 'T' that is no ISO date, or no
\* such key (the empty str stands for the missing key)
WhenKinds == {"iso", "plain", "bad", "none"}
WhenOf(kind, v) ==
    CASE kind = "iso"   -> ToStr(v) \o <<"T", "0">>
      [] kind = "plain" -> ToStr(v) \o <<" ", "0">>
      [] kind = "bad"   -> <<"T">> \o ToStr(v)
      [] kind = "none"  -> <<>>

Unknown == <<"Unknown">>

\* datetime.fromisoformat accepts the string: digits, 'T', digits
IsIsoDate(s) ==
    \E k \in 2..(Len(s) - 1) :
        /\ s[k] = "T"
        /\ \A c \in (1..Len(s)) \ {k} : s[c] \in Digits

\* dt.strftime('%Y-%m-%d %H:%M:%S') of the parsed date
FormatDate(s) == [c \in 1..Len(s) |-> IF s[c] = "T" THEN " " ELSE s[c]]

\* 'T' in str(s)
HasT(s) == \E c \in 1..Len(s) : s[c] = "T"

\* download_page, lines 1986-2010: updated_date of the file header and of the
\* manifest entry
UpdatedDate(when) ==
    IF when = <<>> THEN Unknown
    ELSE IF HasT(when) /\ IsIsoDate(when) THEN FormatDate(when) ELSE when

\* is_japanese_document(title)
is_japanese_document(cfg, title) ==
    cfg.SKIP_JAPANESE /\ \E p \in cfg.SKIP_PATTERNS : Occurs(p, title)

\* should_include_document(title)
should_include_document(cfg, title) ==
    cfg.INCLUDE_PATTERNS = {} \/ \E p \in cfg.INCLUDE_PATTERNS : Occurs(p, title)

EmptyManifest == [k \in {} |-> [version |-> 0, updated_date |-> <<>>, downloaded_at |-> 0]]
NoFiles == [k \in {} |-> [updated_date |-> <<>>, version |-> 0, mtime |-> 0]]

\* a slip: every page of the manifest counts as changed
IsPageUpdatedAlways(m, page_id, remote_version, remote_updated) == TRUE

\* _is_page_updated(page_id, remote_version, remote_updated) on the manifest m
_is_page_updated(m, page_id, remote_version, remote_updated) ==
    IF page_id \notin DOMAIN m THEN TRUE
    ELSE IF m[page_id].version > 0 THEN remote_version > m[page_id].version
    ELSE IF m[page_id].updated_date # <<>> /\ remote_updated # <<>>
         THEN IF HasT(remote_updated)
              THEN IF IsIsoDate(remote_updated)
                   THEN FormatDate(remote_updated) # m[page_id].updated_date
                   ELSE TRUE
              ELSE remote_updated # m[page_id].updated_date
         ELSE TRUE

\* _update_manifest_entry(page_id, version, updated_date, file_path, title)
\* on the manifest m, at the time clock
_update_manifest_entry(m, page_id, version, updated_date, clock) ==
    DictSet(m, page_id,
            [version |-> version, updated_date |-> updated_date, downloaded_at |-> clock])

\* a slip: the entry is written whether or not the file was saved
ManifestAfterAttempt(saved, m, page_id, version, updated_date, clock) ==
    _update_manifest_entry(m, page_id, version, updated_date, clock)

\* lines 2056-2072: the manifest after the attempt to write the file
ManifestAfterSave(saved, m, page_id, version, updated_date, clock) ==
    IF saved THEN _update_manifest_entry(m, page_id, version, updated_date, clock) ELSE m

\* _build_manifest_from_files: an entry of version 0 for every file whose
\* header has a page id and an update date other than 'Unknown'
_build_manifest_from_files(files) ==
    [k \in {f \in DOMAIN files : files[f].updated_date # <<>> /\ files[f].updated_date # Unknown} |->
        [version |-> 0, updated_date |-> files[k].updated_date, downloaded_at |-> files[k].mtime]]

\* _load_manifest: the manifest file when it exists, else the manifest of
\* the files
_load_manifest(file, files) ==
    IF file.exists THEN file.data ELSE _build_manifest_from_files(files)

\* _build_manifest_from_files saves a manifest that is not empty at once
FileAfterLoad(file, files) ==
    IF ~file.exists /\ DOMAIN _build_manifest_from_files(files) # {}
    THEN [exists |-> TRUE, data |-> _build_manifest_from_files(files), run |-> 0]
    ELSE file

ZeroStats ==
    [downloaded_count |-> 0, skipped_count |-> 0, failed_count |-> 0, unchanged_count |-> 0]

\* a slip: the counter is left as it is
NotCounted(st, counter) == st

\* self.<counter> += 1
Counted(st, counter) == [st EXCEPT ![counter] = @ + 1]

\* the page_info of a page in the listing, expand = version
PageInfo(id, rem) ==
    [id |-> id, title |-> TitleOf(id), version |-> rem[id]]

UpdateIdle ==
    /\ config = [SKIP_JAPANESE |-> FALSE, SKIP_PATTERNS |-> {}, INCLUDE_PATTERNS |-> {}]
    /\ remote = <<>> /\ update_mode = FALSE /\ page_list = <<>> /\ page_pos = 0
    /\ stats = ZeroStats /\ self_manifest = EmptyManifest /\ md_files = NoFiles
    /\ manifest_file = [exists |-> FALSE, data |-> EmptyManifest, run |-> 0]
    /\ loaded_run = 0
    /\ page_log = <<>> /\ run_no = 0 /\ now = 0 /\ upc = "off"

\* before the first run: no file and no manifest on disk, every page at
\* version 1
UpdateInit ==
    /\ config \in Configs
    /\ \E kind \in WhenKinds :
           remote = [id \in {PageIds[k] : k \in 1..Len(PageIds)} |->
                        [number |-> 1, when |-> WhenOf(kind, 1), kind |-> kind]]
    /\ update_mode = FALSE /\ page_list = <<>> /\ page_pos = 0
    /\ stats = ZeroStats /\ self_manifest = EmptyManifest /\ md_files = NoFiles
    /\ manifest_file = [exists |-> FALSE, data |-> EmptyManifest, run |-> 0]
    /\ loaded_run = 0
    /\ page_log = <<>> /\ run_no = 0 /\ now = 0 /\ upc = "main"

\* the page is edited on the server
RemoteEdit ==
    /\ upc \in {"main", "pages"}
    /\ \E id \in DOMAIN remote :
           /\ remote[id].number < MaxVersion
           /\ remote' = [remote EXCEPT ![id] =
                  [number |-> @.number + 1, when |-> WhenOf(@.kind, @.number + 1), kind |-> @.kind]]
    /\ UNCHANGED <<config, update_mode, page_list, page_pos, stats, self_manifest, md_files,
                   manifest_file, loaded_run, page_log, run_no, now, upc>>

\* main: ConfluenceDownloader(update_mode=update_mode), then download_all up
\* to the listing of the pages
RunStart ==
    /\ upc = "main"
    /\ run_no < MaxRuns
    /\ \E mode \in BOOLEAN :
           /\ update_mode' = mode
           /\ self_manifest' = IF mode THEN _load_manifest(manifest_file, md_files)
                               ELSE EmptyManifest
           /\ manifest_file' = IF mode THEN FileAfterLoad(manifest_file, md_files)
                               ELSE manifest_file
           /\ loaded_run' = IF mode /\ manifest_file.exists THEN manifest_file.run ELSE 0
    /\ stats' = ZeroStats
    /\ \E found \in {<<>>, PageIds} :
           /\ page_list' = [k \in 1..Len(found) |-> PageInfo(found[k], remote)]
           /\ upc' = IF found = <<>> THEN "main" ELSE "pages"
    /\ page_pos' = 1
    /\ run_no' = run_no + 1
    /\ UNCHANGED <<config, remote, md_files, page_log, now>>

\* the record of one call of download_page
Logged(info, path, value, fetched, st, m, files) ==
    [run |-> run_no, mode |-> update_mode, loaded |-> loaded_run,
     id |-> info.id, listed |-> info.version.number,
     path |-> path, returned |-> value, fetched |-> fetched,
     stats_before |-> stats, stats_after |-> st,
     manifest_before |-> self_manifest, manifest_after |-> m,
     files_before |-> md_files, files_after |-> files]

\* download_page has returned: download_all goes on to the next page
PageDone(path, value, fetched, st, m, files) ==
    /\ stats' = st
    /\ self_manifest' = m
    /\ md_files' = files
    /\ page_log' = Append(page_log,
           Logged(page_list[page_pos], path, value, fetched, st, m, files))
    /\ page_pos' = page_pos + 1
    /\ now' = now + 1
    /\ UNCHANGED <<config, remote, update_mode, page_list, manifest_file, loaded_run, run_no,
                   upc>>

AtPage == upc = "pages" /\ page_pos <= Len(page_list)

\* lines 1913-1917: the title is filtered
PageFiltered ==
    /\ AtPage
    /\ is_japanese_document(config, page_list[page_pos].title)
    /\ PageDone("filtered", TRUE, FALSE, Counted(stats, "skipped_count"), self_manifest, md_files)

\* lines 1919-1923: the title is not in the include list
PageNotIncluded ==
    /\ AtPage
    /\ ~is_japanese_document(config, page_list[page_pos].title)
    /\ ~should_include_document(config, page_list[page_pos].title)
    /\ PageDone("excluded", TRUE, FALSE, Counted(stats, "skipped_count"), self_manifest, md_files)

\* the page passes the filters
Included ==
    /\ AtPage
    /\ ~is_japanese_document(config, page_list[page_pos].title)
    /\ should_include_document(config, page_list[page_pos].title)

\* lines 1925-1932, the test of update mode
Changed ==
    update_mode =>
        _is_page_updated(self_manifest, page_list[page_pos].id,
                         page_list[page_pos].version.number, page_list[page_pos].version.when)

\* lines 1925-1932: update mode, the page has not changed
PageUnchanged ==
    /\ Included
    /\ ~Changed
    /\ PageDone("unchanged", TRUE, FALSE, Counted(stats, "unchanged_count"), self_manifest, md_files)

\* lines 1936-1941: get_page_content gives None
PageFetchFails ==
    /\ Included
    /\ Changed
    /\ PageDone("nofetch", FALSE, TRUE, Counted(stats, "failed_count"), self_manifest, md_files)

\* lines 1943-1968: os.makedirs or the write of the debug file raises; the
\* exception leaves download_page and download_all, and main prints it
PagePrepareRaises ==
    /\ Included
    /\ Changed
    /\ upc' = "main"
    /\ now' = now + 1
    /\ UNCHANGED <<config, remote, update_mode, page_list, page_pos, stats, self_manifest,
                   md_files, manifest_file, loaded_run, page_log, run_no>>

\* the file written for the fetched page
FileOf(rem, clock) ==
    [updated_date |-> UpdatedDate(rem.when), version |-> rem.number, mtime |-> clock]

\* lines 1936-2072: the page is fetched and the file is written (saved) or
\* the write raises
PageSave ==
    /\ Included
    /\ Changed
    /\ \E saved \in BOOLEAN :
           PageDone(IF saved THEN "saved" ELSE "savefail", saved, TRUE,
                    Counted(stats, IF saved THEN "downloaded_count" ELSE "failed_count"),
                    ManifestAfterSave(saved, self_manifest, page_list[page_pos].id,
                                      remote[page_list[page_pos].id].number,
                                      UpdatedDate(remote[page_list[page_pos].id].when), now),
                    IF saved
                    THEN DictSet(md_files, page_list[page_pos].id,
                                 FileOf(remote[page_list[page_pos].id], now))
                    ELSE md_files)

\* download_all after the last page: _save_manifest, which writes the file
\* or prints the IOError
SaveManifest ==
    /\ upc = "pages"
    /\ page_pos > Len(page_list)
    /\ \E written \in BOOLEAN :
           manifest_file' = IF written
                            THEN [exists |-> TRUE, data |-> self_manifest, run |-> run_no]
                            ELSE manifest_file
    /\ upc' = "main"
    /\ UNCHANGED <<config, remote, update_mode, page_list, page_pos, stats, self_manifest,
                   md_files, loaded_run, page_log, run_no, now>>

(***************************************************************************)
(* ConfluenceUploader.upload: the workflow for one Markdown file, each     *)
(* request to the Confluence API a step                                    *)
(***************************************************************************)

\* bound: the number of image files found for the document
MaxImageFiles == 1

\* the arguments of upload and what the file gives: whether the header has
\* a document id and how many of its images are files
UploadArgs ==
    [update : BOOLEAN, parent_title : BOOLEAN, parent_id : BOOLEAN, dry_run : BOOLEAN,
     doc_id : BOOLEAN, image_files : 0..MaxImageFiles]

\* a slip: the dry run is not looked at
DryRunIgnored(args) == FALSE

\* if dry_run: ... return
DryRun(args) == args.dry_run

\* the call self._api_request(method, url, ...)
Request(method, target) == [method |-> method, target |-> target]

UploadIdle ==
    /\ upload_args = [update |-> FALSE, parent_title |-> FALSE, parent_id |-> FALSE,
                      dry_run |-> FALSE, doc_id |-> FALSE, image_files |-> 0]
    /\ request_log = <<>> /\ existing_page = FALSE /\ images_left = 0
    /\ printed = FALSE /\ wpc = "off"

\* main: uploader.upload(filepath, parent_title, parent_id, update, dry_run)
UploadInit ==
    /\ upload_args \in UploadArgs
    /\ request_log = <<>> /\ existing_page = FALSE /\ images_left = 0
    /\ printed = FALSE /\ wpc = "start"

\* steps 1 to 3: parse the file, convert the body, resolve the image paths
UploadConvert ==
    /\ wpc = "start"
    /\ images_left' = upload_args.image_files
    /\ wpc' = "converted"
    /\ UNCHANGED <<upload_args, request_log, existing_page, printed>>

\* step 4: print the storage markup and return
DryRunReturn ==
    /\ wpc = "converted"
    /\ DryRun(upload_args)
    /\ printed' = TRUE
    /\ wpc' = "done"
    /\ UNCHANGED <<upload_args, request_log, existing_page, images_left>>

\* the workflow goes on behind step 4
Uploading == wpc = "converted" /\ ~DryRun(upload_args)

\* step 5: find_page_by_id(doc_id), which gives the page, None on 404, or raises
FindPageById ==
    /\ Uploading
    /\ upload_args.update /\ upload_args.doc_id
    /\ request_log' = Append(request_log, Request("GET", "page by id"))
    /\ \E outcome \in {"found", "none", "raises"} :
           /\ existing_page' = (outcome = "found")
           /\ wpc' = CASE outcome = "found" -> "update"
                       [] outcome = "none" -> "by_title"
                       [] outcome = "raises" -> "raised"
    /\ UNCHANGED <<upload_args, images_left, printed>>

\* step 5: find_page_by_title(title) when update is set and no page is found yet
FindPageByTitle ==
    /\ \/ Uploading /\ upload_args.update /\ ~upload_args.doc_id
       \/ wpc = "by_title"
    /\ request_log' = Append(request_log, Request("GET", "page by title"))
    /\ \E outcome \in {"found", "none", "raises"} :
           /\ existing_page' = (outcome = "found")
           /\ wpc' = CASE outcome = "found" -> "update"
                       [] outcome = "none" -> "parent"
                       [] outcome = "raises" -> "raised"
    /\ UNCHANGED <<upload_args, images_left, printed>>

\* step 6: update_page
UpdatePage ==
    /\ wpc = "update"
    /\ request_log' = Append(request_log, Request("PUT", "page"))
    /\ wpc' \in {"written", "raised"}
    /\ UNCHANGED <<upload_args, existing_page, images_left, printed>>

\* no page exists: the parent is resolved next
NoExistingPage == wpc = "parent" \/ (Uploading /\ ~upload_args.update)

\* step 6: find_parent_page, by id when parent_id is given, else by title
FindParentPage ==
    /\ NoExistingPage
    /\ upload_args.parent_id \/ upload_args.parent_title
    /\ request_log' = Append(request_log,
           Request("GET", IF upload_args.parent_id THEN "parent by id" ELSE "parent by title"))
    /\ wpc' \in {"create", "raised"}
    /\ UNCHANGED <<upload_args, existing_page, images_left, printed>>

\* step 6: create_page
CreatePage ==
    /\ \/ wpc = "create"
       \/ NoExistingPage /\ ~upload_args.parent_id /\ ~upload_args.parent_title
    /\ request_log' = Append(request_log, Request("POST", "page"))
    /\ wpc' \in {"written", "raised"}
    /\ UNCHANGED <<upload_args, existing_page, images_left, printed>>

\* step 7: get_existing_attachments
ListAttachments ==
    /\ wpc = "written"
    /\ images_left > 0
    /\ request_log' = Append(request_log, Request("GET", "attachments"))
    /\ wpc' \in {"images", "raised"}
    /\ UNCHANGED <<upload_args, existing_page, images_left, printed>>

\* step 7: upload_attachment of the next image, which posts the file or skips it
UploadImage ==
    /\ wpc = "images"
    /\ images_left > 0
    /\ \/ /\ request_log' = Append(request_log, Request("POST", "attachment"))
          /\ wpc' \in {"images", "raised"}
       \/ UNCHANGED <<request_log, wpc>>
    /\ images_left' = images_left - 1
    /\ UNCHANGED <<upload_args, existing_page, printed>>

\* step 8: print the result
UploadReturn ==
    /\ \/ wpc = "written" /\ images_left = 0
       \/ wpc = "images" /\ images_left = 0
    /\ wpc' = "done"
    /\ UNCHANGED <<upload_args, request_log, existing_page, images_left, printed>>

(***************************************************************************)
(* get_all_pages_content_api and search_all_pages: the loops that list the *)
(* pages of the space, each request and what follows it a step             *)
(***************************************************************************)

\* max_iterations = 100, the safety limit of both loops
max_iterations == 100

\* bound: BATCH_SIZE, the limit parameter of a request
BatchSize == 2

\* bound: answers with status 429 to one call of a listing method
MaxRateLimited == 2

\* the two methods
ListingMethods == {"get_all_pages_content_api", "search_all_pages"}

ListingIdle ==
    /\ listing = "none" /\ start_at = 0 /\ iteration = 0 /\ all_pages = 0
    /\ requests = 0 /\ rate_limited = 0 /\ lpc = "off"

\* a call of one of the methods, before the loop
ListingInit ==
    /\ listing \in ListingMethods
    /\ start_at = 0 /\ iteration = 0 /\ all_pages = 0
    /\ requests = 0 /\ rate_limited = 0 /\ lpc = "loop"

\* the loop is at  while iteration < max_iterations  of method m with the
\* condition true, and self.session.get is called
ListingRequest(m) ==
    /\ lpc = "loop" /\ listing = m
    /\ iteration < max_iterations
    /\ requests' = requests + 1

\* the answer has a full batch and size is not 0: the pages are added and the
\* loop goes on with the next batch
ContentBatch ==
    /\ ListingRequest("get_all_pages_content_api")
    /\ all_pages' = all_pages + BatchSize
    /\ start_at' = start_at + BatchSize
    /\ iteration' = iteration + 1
    /\ UNCHANGED <<listing, rate_limited, lpc>>

\* the answer has no pages or size 0 (break), or fewer pages than the limit
\* (the pages are added, break)
ContentLastBatch ==
    /\ ListingRequest("get_all_pages_content_api")
    /\ \E n \in 0..BatchSize : \E size \in {0, n} :
           /\ n = 0 \/ size = 0 \/ n < BatchSize
           /\ all_pages' = IF n = 0 \/ size = 0 THEN all_pages ELSE all_pages + n
    /\ lpc' = "returned"
    /\ UNCHANGED <<listing, start_at, iteration, rate_limited>>

\* raise_for_status raises HTTPError with status 429: sleep, continue
ContentRateLimited ==
    /\ ListingRequest("get_all_pages_content_api")
    /\ rate_limited < MaxRateLimited
    /\ rate_limited' = rate_limited + 1
    /\ UNCHANGED <<listing, start_at, iteration, all_pages, lpc>>

\* another HTTPError or a RequestException: break
ContentError ==
    /\ ListingRequest("get_all_pages_content_api")
    /\ lpc' = "returned"
    /\ UNCHANGED <<listing, start_at, iteration, all_pages, rate_limited>>

\* the answer has a full batch and totalSize is not reached: the pages are
\* added and the loop goes on with the next batch
SearchBatch ==
    /\ ListingRequest("search_all_pages")
    /\ all_pages' = all_pages + BatchSize
    /\ start_at' = start_at + BatchSize
    /\ iteration' = iteration + 1
    /\ UNCHANGED <<listing, rate_limited, lpc>>

\* the answer has no pages (break), or the pages are added and totalSize is
\* reached or the batch is not full (break); totalSize is 0 when the key is
\* missing
SearchLastBatch ==
    /\ ListingRequest("search_all_pages")
    /\ \E n \in 0..BatchSize, total_size \in {0, 1000} :
           /\ n = 0 \/ all_pages + n >= total_size \/ n < BatchSize
           /\ all_pages' = all_pages + n
    /\ lpc' = "returned"
    /\ UNCHANGED <<listing, start_at, iteration, rate_limited>>

\* raise_for_status raises HTTPError with status 429: sleep, continue
SearchRateLimited ==
    /\ ListingRequest("search_all_pages")
    /\ rate_limited < MaxRateLimited
    /\ rate_limited' = rate_limited + 1
    /\ UNCHANGED <<listing, start_at, iteration, all_pages, lpc>>

\* another HTTPError or a RequestException: the next batch is tried
SearchError ==
    /\ ListingRequest("search_all_pages")
    /\ start_at' = start_at + BatchSize
    /\ iteration' = iteration + 1
    /\ UNCHANGED <<listing, all_pages, rate_limited, lpc>>

\* the loop condition is false: the method returns all_pages
IterationLimit ==
    /\ lpc = "loop"
    /\ iteration >= max_iterations
    /\ lpc' = "returned"
    /\ UNCHANGED <<listing, start_at, iteration, all_pages, requests, rate_limited>>

(***************************************************************************)
(* Properties of _convert_table_to_markdown                                *)
(***************************************************************************)

\* the table read so far satisfies the data model's invariant
WellFormed == grid.ok

IsSeparatorRow(r) == r # <<>> /\ \A k \in 1..Len(r) : r[k] = <<"-", "-", "-">>

SeparatorRows == {k \in 1..Len(rows) : IsSeparatorRow(rows[k])}

\* C2: in a table that satisfies the data-model invariant every rendered row,
\* the separator included, has as many cells as the first (header) row
C2_GridRectangular ==
    WellFormed => \A k \in 1..Len(rows) : Len(rows[k]) = Len(rows[1])

\* C3: a non-empty result holds exactly one separator row, as its second line,
\* with as many --- cells as the first row has cells
C3_OneSeparatorAfterFirstRow ==
    (tpc = "done" /\ table_md # <<>>) =>
        /\ SeparatorRows = {2}
        /\ Len(rows[2]) = Len(rows[1])
        /\ table_md[2] = FormatRow(Separator(rows[1]))

\* C4: the tracker holds, for every placed rowspan k, exactly the k-1 following
\* rows minus those already rendered, and each row shows an empty placeholder
\* in every column a rowspan still covered
C4_SpanCoversNextRows ==
    WellFormed =>
        /\ DOMAIN rowspan_tracker = DOMAIN span_log.due
        /\ \A c \in DOMAIN rowspan_tracker : rowspan_tracker[c][1] = span_log.due[c]
        /\ \A c \in DOMAIN span_log.before :
               c + 1 <= Len(span_log.cells) /\ span_log.cells[c + 1] = <<>>

\* the part of C4 that the source keeps: without a cell that carries both a
\* rowspan and a colspan the tracker follows the spans
NoDoubleSpan ==
    \A r \in 1..Len(table_content) :
        \A k \in 1..Len(table_content[r].content) :
            LET a == table_content[r].content[k].attrs
            IN  a.rowspan = 1 \/ a.colspan = 1

SingleSpan_TrackerFollowsSpans == NoDoubleSpan => C4_SpanCoversNextRows
SingleSpan_GridRectangular == NoDoubleSpan => C2_GridRectangular

(***************************************************************************)
(* Properties of MarkdownToStorageConverter.convert                        *)
(***************************************************************************)

\* C1: every iteration of the block scan, whichever branch it takes, leaves the
\* line index at least one line further
C1_EveryIterationAdvances ==
    \A n \in 1..Len(scan_log) : scan_log[n].next > scan_log[n].start

\* the block rules in the order the claim gives them
RuleOrder == <<"code", "hr", "heading", "table", "ul", "ol", "blockquote", "blank", "p">>

\* whether the rule `kind` matches at lines[k]
RuleMatches(kind, ls, k) ==
    CASE kind = "code"       -> IsFence(ls[k + 1])
      [] kind = "hr"         -> IsRule(ls[k + 1])
      [] kind = "heading"    -> IsHeading(ls[k + 1])
      [] kind = "table"      -> IsTable(ls, k)
      [] kind = "ul"         -> IsUnordered(ls[k + 1])
      [] kind = "ol"         -> IsOrdered(ls[k + 1])
      [] kind = "blockquote" -> IsQuote(ls[k + 1])
      [] kind = "blank"      -> IsBlank(ls[k + 1])
      [] OTHER               -> TRUE

\* C6: every iteration applies the first rule of the fixed order that matches
\* its line, and starts where the iteration before it stopped, so no line taken
\* by one block is handed to a later rule
C6_FirstMatchWins ==
    \A n \in 1..Len(scan_log) :
        LET e == scan_log[n]
        IN  /\ \E r \in 1..Len(RuleOrder) :
                   /\ RuleOrder[r] = e.kind
                   /\ RuleMatches(e.kind, lines, e.start)
                   /\ \A q \in 1..(r - 1) : ~ RuleMatches(RuleOrder[q], lines, e.start)
            /\ e.start <= e.next
            /\ n > 1 => scan_log[n - 1].next <= e.start

\* a line that matches a list pattern and the table pattern was parsed as a table
C6_Witness ==
    \E n \in 1..Len(scan_log) :
        /\ scan_log[n].kind = "table"
        /\ \/ IsUnordered(lines[scan_log[n].start + 1])
           \/ IsOrdered(lines[scan_log[n].start + 1])
        /\ cpc = "done"

(***************************************************************************)
(* Properties of _extract_text_from_node                                   *)
(***************************************************************************)

HasMark(n, t) == \E k \in 1..Len(n.marks) : n.marks[k].type = t

\* C10: a text node with a link mark renders as [text](url) around the raw text,
\* url being the href of its first link mark, whatever other marks it carries
C10_LinkWins ==
    (xpc = "done" /\ HasMark(node, "link")) =>
        \E k \in 1..Len(node.marks) :
            /\ node.marks[k].type = "link"
            /\ \A j \in 1..(k - 1) : node.marks[j].type # "link"
            /\ text_out = <<"[">> \o node.text \o <<"]", "(">>
                              \o node.marks[k].href \o <<")">>

\* a node with strong before link and em after it has been rendered
C10_Witness ==
    /\ xpc = "done"
    /\ Len(node.marks) = 3
    /\ node.marks[1].type = "strong"
    /\ node.marks[2].type = "link"
    /\ node.marks[3].type = "em"

\* marks list m2 is an ordering of marks list m1
Reordered(m1, m2) ==
    /\ Len(m1) = Len(m2)
    /\ \E f \in [1..Len(m1) -> 1..Len(m1)] :
           /\ \A j, k \in 1..Len(m1) : f[j] = f[k] => j = k
           /\ m2 = [k \in 1..Len(m1) |-> m1[f[k]]]

\* the text nodes with the text of n and its marks in another order
Reorderings(n) == {m \in TextNodes : m.text = n.text /\ Reordered(n.marks, m.marks)}

\* C27: a text node without a link mark renders to the same string for every
\* ordering of its marks list
C27_MarksOrderIrrelevant ==
    (xpc = "done" /\ ~HasMark(node, "link")) =>
        \A m \in Reorderings(node) : ExtractTextNode(m) = text_out

\* the same for the nodes that carry no code mark: strong and em commute
C27_StrongEmOrderIrrelevant ==
    (xpc = "done" /\ ~HasMark(node, "link") /\ ~HasMark(node, "code")) =>
        \A m \in Reorderings(node) : ExtractTextNode(m) = text_out

(***************************************************************************)
(* Specifications                                                          *)
(***************************************************************************)

(***************************************************************************)
(* Properties of atlas_doc_to_markdown                                     *)
(***************************************************************************)

\* the top-level heading nodes with text, in document order, as (level, text)
TopHeadings ==
    LET hs == SelectSeq(content,
                  LAMBDA n : n.type = "heading" /\ strip(ExtractText(n)) # <<>>)
    IN  [k \in 1..Len(hs) |-> [level |-> hs[k].attrs.level,
                               text |-> strip(ExtractText(hs[k]))]]

\* those of level 1 to 3
TocWanted == SelectSeq(TopHeadings, LAMBDA h : h.level <= 3)

IsTocNode(n) ==
    n.type = "extension" /\ Get(Get(n, "attrs", <<>>), "extensionKey", "") = "toc"

\* the text between the first [ and the next ] of a line
LabelOf(line) ==
    LET a == SpanOf(Range(line) \ {"["}, line)
        rest == Drop(line, a + 1)
    IN  SubSeq(rest, 1, SpanOf(Range(rest) \ {"]"}, rest))

\* the lines of a block that are links of a list: indentation, "- [" and a label
LinkLines(text) ==
    SelectSeq(split(text, "\n"), LAMBDA l : startswith(lstrip(l), <<"-", " ", "[">>))

\* the block is the title, an empty line and one link per heading of hs, in order
IsLinkList(text, hs) ==
    LET ls == split(text, "\n")
    IN  /\ Len(ls) = 2 + Len(hs)
        /\ ls[1] = TocTitle
        /\ ls[2] = <<>>
        /\ \A k \in 1..Len(hs) : LabelOf(ls[k + 2]) = hs[k].text

\* the blocks rendered from a node that satisfies the test
TocBlocks(where) ==
    {b \in 1..Len(block_log) :
        IsTocNode(block_log[b].node) /\ block_log[b].where = where}

HeadingBlocks(where) ==
    {b \in 1..Len(block_log) :
        block_log[b].node.type = "heading" /\ block_log[b].where = where}

\* the block starts with exactly n hashes, then one space, then the text
HashesThenText(text, n, inline) ==
    /\ SpanOf({"#"}, text) = n
    /\ Drop(text, n) = <<" ">> \o inline

\* C7 as stated: every emitted heading of level L, at top level or in an
\* expand, begins with exactly L hashes, a space and the heading's inline text
C7_HeadingHasLevelHashes ==
    \A b \in HeadingBlocks("top") \cup HeadingBlocks("expand") :
        HashesThenText(markdown[b], block_log[b].node.attrs.level,
                       ExtractText(block_log[b].node))

\* C7 amended: a top-level heading of level L begins with exactly L hashes, a
\* heading that is a child of an expand with exactly L + 1 hashes; then one
\* space and the heading's inline text
C7_HeadingHashesByPlace ==
    /\ \A b \in HeadingBlocks("top") :
           HashesThenText(markdown[b], block_log[b].node.attrs.level,
                          ExtractText(block_log[b].node))
    /\ \A b \in HeadingBlocks("expand") :
           HashesThenText(markdown[b], block_log[b].node.attrs.level + 1,
                          ExtractText(block_log[b].node))

\* a document with a heading at top level and one inside an expand was rendered
C7_Witness ==
    /\ rpc = "done"
    /\ HeadingBlocks("top") # {}
    /\ HeadingBlocks("expand") # {}

\* C8: the table of contents of a top-level toc extension, in a document with a
\* top-level heading, has one link line per collected heading of level <= 3, in
\* document order, and none for a heading of a deeper level
C8_TocListsLevelsUpTo3 ==
    (\E k \in 1..Len(content) : content[k].type = "heading") =>
        \A b \in TocBlocks("top") :
            LET ls == LinkLines(markdown[b])
            IN  /\ Len(ls) = Len(TocWanted)
                /\ \A k \in 1..Len(ls) : LabelOf(ls[k]) = TocWanted[k].text

\* headings of levels 1, 2 and 4 and a toc extension were rendered: two links
C8_Witness ==
    /\ rpc = "done"
    /\ \E b \in TocBlocks("top") : Len(LinkLines(markdown[b])) = 2
    /\ Len(TopHeadings) = 3
    /\ TopHeadings[1].level = 1 /\ TopHeadings[2].level = 2 /\ TopHeadings[3].level = 4

\* the first pass is over before a block is rendered, and it collects exactly
\* the top-level headings with text
PrePassFirst ==
    /\ rpc = "prepass" => markdown = <<>> /\ node_index = 0
    /\ rpc \in {"render", "done"} => headings = TopHeadings

\* C9 as stated: the first pass completes before any block is rendered and
\* collects the top-level headings with text, and every toc extension, at top
\* level or inside an expand, renders the link list of all those headings
C9_EveryTocListsAllHeadings ==
    /\ PrePassFirst
    /\ \A b \in TocBlocks("top") \cup TocBlocks("expand") :
           IsLinkList(markdown[b], TocWanted)

\* C9 amended: the first pass completes before any block is rendered and
\* collects the top-level headings with text; a top-level toc extension, before
\* or after the headings, renders the link list of all of them when there is
\* one; a toc extension in a document without such a heading, or inside an
\* expand, renders the fixed placeholder
C9_TopLevelTocListsAllHeadings ==
    /\ PrePassFirst
    /\ \A b \in TocBlocks("top") :
           IF TopHeadings # <<>> THEN IsLinkList(markdown[b], TocWanted)
           ELSE markdown[b] = TocPlaceholder
    /\ \A b \in TocBlocks("expand") : markdown[b] = TocPlaceholder

\* a toc extension rendered before the heading it links, and one inside an expand
C9_Witness ==
    /\ rpc = "done"
    /\ Len(content) >= 2
    /\ content[1] = Toc
    /\ \E k \in 2..Len(content) : content[k].type = "heading"
    /\ block_log[1].kind = "toc" /\ Len(LinkLines(markdown[1])) >= 1
    /\ TocBlocks("expand") # {}

\* the nodes of an unrecognized type at top level, and as children of an expand
UnrecognizedTop ==
    {content[k] : k \in {j \in 1..Len(content) : content[j].type \notin DispatchedTypes}}

UnrecognizedInExpand ==
    UNION { {content[k].content[c] :
                c \in {j \in 1..Len(content[k].content) :
                          content[k].content[j].type \notin
                              {"paragraph", "heading", "bulletList", "orderedList",
                               "rule", "table", "codeBlock"}}} :
            k \in {j \in 1..Len(content) : content[j].type = "expand"} }

\* C14: the text of the descendants of a node of unrecognized type stands in
\* the rendered Markdown, at top level as well as inside an expand
C14_UnrecognizedNodeKeepsText ==
    rpc = "done" =>
        \A n \in UnrecognizedTop \cup UnrecognizedInExpand :
            strip(ExtractText(n)) # <<>> => Occurs(ExtractText(n), md_text)

\* the same for the children of an expand alone
C14_ExpandChildKeepsText ==
    rpc = "done" =>
        \A n \in UnrecognizedInExpand :
            strip(ExtractText(n)) # <<>> => Occurs(ExtractText(n), md_text)

(***************************************************************************)
(* Properties of rendering and parsing back                                *)
(***************************************************************************)

\* the index of the line of md_text at which block b starts
StartLine(b) ==
    IF b = 1 THEN 0
    ELSE Len(split(join(<<"\n", "\n">>, SubSeq(markdown, 1, b - 1)), "\n")) + 1

\* the parser's branch for a kind of rendered block
ParserKind(kind) ==
    CASE kind = "heading" -> "heading"
      [] kind = "ul" -> "ul"
      [] kind = "nested" -> "ul"
      [] kind = "ol" -> "ol"
      [] kind = "table" -> "table"
      [] kind = "code" -> "code"
      [] kind = "hr" -> "hr"
      [] OTHER -> "none"

\* C5: once convert() has scanned the rendered text, the first line of every
\* heading, list line, nested bullet, table, code block and rule the renderer
\* emitted lies in an iteration of the branch of that same kind
C5_RenderedBlocksRecognized ==
    (cpc = "done" /\ \A b \in 1..Len(markdown) : markdown[b] # <<>>) =>
        \A b \in 1..Len(block_log) :
            ParserKind(block_log[b].kind) # "none" =>
                \E n \in 1..Len(scan_log) :
                    /\ scan_log[n].kind = ParserKind(block_log[b].kind)
                    /\ scan_log[n].start <= StartLine(b)
                    /\ StartLine(b) < scan_log[n].next

(***************************************************************************)
(* Properties of _parse_table                                              *)
(***************************************************************************)

RECURSIVE CountOf(_, _)
\* how often the character c stands in s
CountOf(c, s) ==
    IF s = <<>> THEN 0 ELSE (IF Head(s) = c THEN 1 ELSE 0) + CountOf(c, Tail(s))

\* the cells the pipes of a line delimit: one more than the pipes that stand
\* between the first and the last cell, the outer pipes and blanks set aside
PipeCells(line) == 1 + CountOf("|", StripChars(line, Whitespace \cup {"|"}))

RECURSIVE BodyRun(_, _)
\* how many consecutive lines from index k on are not blank and hold a pipe
BodyRun(ls, k) ==
    IF k < Len(ls) /\ CountOf("|", ls[k + 1]) > 0 /\ ~ IsBlank(ls[k + 1])
    THEN 1 + BodyRun(ls, k + 1) ELSE 0

TableWithBodyParsed ==
    \E n \in 1..Len(scan_log) :
        scan_log[n].kind = "table" /\ Len(scan_log[n].table.body) >= 1

(***************************************************************************)
(* Properties of _convert_inline                                           *)
(***************************************************************************)

\* the indices of t at which an embedded-image element opens, in order
RECURSIVE ImageStarts(_, _)
ImageStarts(t, k) ==
    IF k > Len(t) THEN <<>>
    ELSE (IF t[k] = ImageOpen THEN <<k>> ELSE <<>>) \o ImageStarts(t, k + 1)

\* the value of the filename attribute of the element that opens at index k
FilenameAt(t, k) ==
    LET mid == k + SpanOf(Range(t) \ {ImageMid}, Drop(t, k - 1))
        rest == Drop(t, mid)
    IN  SubSeq(rest, 1, SpanOf(Range(t) \ {ImageClose}, rest))

\* the image list has one entry per embedded-image element of the markup, and
\* the i-th element names the basename of the i-th entry
ImagesMatchElements ==
    LET at == ImageStarts(inline_text, 1)
    IN  /\ Len(images) = Len(at)
        /\ \A n \in 1..Len(at) :
               FilenameAt(inline_text, at[n]) = _escape_xml(basename(images[n]))

\* every piece of markup with attributes emitted so far stands unbroken in the text
EmittedMarkupKept == \A n \in 1..Len(emitted) : Occurs(emitted[n].markup, inline_text)

\* every escaped attribute value was taken from characters of the source text
EscapedOnce ==
    \A n \in 1..Len(emitted) : \A k \in 1..Len(emitted[n].raw) :
        /\ emitted[n].raw[k] \notin Tags
        /\ emitted[n].raw[k] \notin {"&amp;", "&lt;", "&gt;", "&quot;"}

\* C11: when convert() has returned, the image list has exactly one entry per
\* embedded-image element of the markup, in order, and the i-th element's
\* attachment filename is the basename of the i-th entry
C11_ImageListMatchesMarkup == ipc = "done" => ImagesMatchElements

\* the same when no later stage touched the emitted markup
C11_HoldsWhenMarkupKept ==
    (ipc = "done" /\ EmittedMarkupKept /\ EscapedOnce) => ImagesMatchElements

\* C12: the stages run in the fixed order images, links, bold, italic,
\* strikethrough, inline code, br; the markup an earlier stage emitted, with its
\* escaped attribute values, stays unchanged through all later stages; and no
\* character is escaped twice
C12_EmittedMarkupPassesThrough ==
    /\ stage_log = SubSeq(<<"images", "links", "bold_star", "bold_under",
                            "italic_star", "italic_under", "strike", "code", "br">>,
                          1, Len(stage_log))
    /\ EmittedMarkupKept
    /\ EscapedOnce

\* the part of C12 on the order alone
StagesInOrder ==
    stage_log = SubSeq(<<"images", "links", "bold_star", "bold_under",
                         "italic_star", "italic_under", "strike", "code", "br">>,
                       1, Len(stage_log))

(***************************************************************************)
(* Properties of the collaborator calls                                    *)
(***************************************************************************)

\* the calls a finished visit made
CallsOf(v) ==
    IF v.pass = "prepass" THEN PrePassYield(doc_content[v.index], v.returned).calls
    ELSE RenderYield(doc_content[v.index], <<>>, v.returned).calls

\* the visit had a media call that returned no path
FailedMedia(v) ==
    \E calls \in {CallsOf(v)} :
        \E j \in 1..Len(v.returned) : calls[j].kind = "media" /\ v.returned[j] = None

\* the one element of a set of one element; the set binds a value that is
\* computed once, before it is used
The(S) == CHOOSE x \in S : TRUE

\* the path _download_media returns for the media node at path when it finds
\* the attachment
SavedPath(n, path) ==
    The({_download_media("saved", m.attrs.collection, m.attrs.alt) : m \in {NodeAt(n, path)}})

\* the values the calls of the visit return when every media call finds its
\* attachment
SavedReturned(v) ==
    The({[j \in 1..Len(v.returned) |->
             IF calls[j].kind = "media"
             THEN SavedPath(doc_content[v.index], calls[j].node)
             ELSE v.returned[j]] : calls \in {CallsOf(v)}})

\* the headings the first pass takes from the visit when every media call
\* finds its attachment
HeadingWhenSaved(v) ==
    The({PrePassYield(doc_content[v.index], res).text : res \in {SavedReturned(v)}})

RECURSIVE HeadingsWhenSaved(_)
\* the list headings of the run in which every media call finds its attachment
HeadingsWhenSaved(log) ==
    IF log = <<>> THEN <<>>
    ELSE (IF Head(log).pass = "prepass" THEN HeadingWhenSaved(Head(log)) ELSE <<>>)
         \o HeadingsWhenSaved(Tail(log))

\* the strings the node at index added to the list markdown
BlockTexts(index) ==
    LET own == SelectSeq(doc_markdown, LAMBDA e : e.index = index)
    IN  [b \in 1..Len(own) |-> own[b].text]

\* the strings the visit adds in the run in which every media call finds its
\* attachment
TextsWhenSaved(v) ==
    The({[b \in 1..Len(bs) |-> bs[b].text] :
            bs \in {RenderYield(doc_content[v.index], hs, res).text :
                       hs \in {HeadingsWhenSaved(visit_log)}, res \in {SavedReturned(v)}}})

RenderVisits == {k \in 1..Len(visit_log) : visit_log[k].pass = "render"}
PrePassVisits == {k \in 1..Len(visit_log) : visit_log[k].pass = "prepass"}

\* no call of a collaborator leaves with an exception
NothingRaised == pass # "raised"

\* a visit whose media calls all returned no path writes no image reference
FailedMediaAbsent ==
    \A k \in RenderVisits :
        (/\ FailedMedia(visit_log[k])
         /\ \A j \in 1..Len(visit_log[k].returned) :
                CallsOf(visit_log[k])[j].kind = "media" => visit_log[k].returned[j] = None)
        => \A b \in 1..Len(BlockTexts(visit_log[k].index)) :
               ~Occurs(<<"!", "[">>, BlockTexts(visit_log[k].index)[b])

\* the block is a table of contents and a heading's media call of the first
\* pass returned no path
TocOfFailedHeading(v) ==
    /\ doc_content[v.index].type = "extension"
    /\ \E k \in PrePassVisits : FailedMedia(visit_log[k])

CallsFor(kind, p) ==
    {c \in 1..Len(call_log) : call_log[c].kind = kind /\ call_log[c].node = p}

\* C17: within one atlas_doc_to_markdown, _download_media is called at most
\* once for each media node, wherever the node sits
C17_MediaResolvedOnce ==
    \A c \in 1..Len(call_log) :
        call_log[c].kind = "media" => Cardinality(CallsFor("media", call_log[c].node)) <= 1

\* what holds: at most once for each media node that is not below a top-level
\* heading, media nodes in table cells included, and at most once in each pass
C17_OnceOutsideHeadings ==
    \A c \in 1..Len(call_log) :
        call_log[c].kind = "media" =>
            /\ doc_content[call_log[c].node[1]].type # "heading"
                   => Cardinality(CallsFor("media", call_log[c].node)) <= 1
            /\ Cardinality({d \in CallsFor("media", call_log[c].node) :
                               call_log[d].pass = call_log[c].pass}) <= 1

RECURSIVE Before(_, _)
\* document order of two nodes given by their paths
Before(p, q) ==
    /\ p # <<>> /\ q # <<>>
    /\ \/ Head(p) < Head(q)
       \/ Head(p) = Head(q) /\ Before(Tail(p), Tail(q))

\* the first call made for the node at path p
FirstCall(p) ==
    CHOOSE c \in 1..Len(call_log) :
        /\ call_log[c].node = p
        /\ \A d \in 1..Len(call_log) : call_log[d].node = p => c <= d

\* C18: the collaborator calls of one render are made in document order: the
\* first call for a node comes before the first call for every node after it
C18_CallsInDocumentOrder ==
    pass = "done" =>
        \A a, b \in 1..Len(call_log) :
            Before(call_log[a].node, call_log[b].node)
            => FirstCall(call_log[a].node) < FirstCall(call_log[b].node)

\* what holds: within each pass the calls are made in document order
C18_InOrderWithinPass ==
    \A a, b \in 1..Len(call_log) :
        (call_log[a].pass = call_log[b].pass
         /\ Before(call_log[a].node, call_log[b].node)) => a < b

(***************************************************************************)
(* Properties of download_page                                             *)
(***************************************************************************)

\* the body value of the page is not valid JSON
ParseFails == page_data # None /\ page_data # <<>> /\ ~loads(page_data).ok

\* what atlas_doc_to_markdown returns for the documents tried
RenderedMarkdown == {atlas_doc_to_markdown(ts) : ts \in Serialized}

\* C16: when the serialized tree is not valid JSON, atlas_doc_to_markdown
\* yields an outcome that no rendered Markdown equals, and download_page
\* writes no file for the page, does not count it as downloaded and makes no
\* manifest entry for it
C16_ParseFailureAborts ==
    (ParseFails /\ dpc \in {"save", "done"}) =>
        /\ page_content \notin RenderedMarkdown
        /\ saved_files = {}
        /\ downloaded_count = 0
        /\ manifest = {}

\* what holds: the conversion returns a fixed message in place of the Markdown
C16_ParseFailureYieldsMessage ==
    (ParseFails /\ dpc \in {"save", "done"}) => page_content = ErrorMessage

(***************************************************************************)
(* Properties of interleaved conversions                                   *)
(***************************************************************************)

RECURSIVE IsSubsequence(_, _)
\* the elements of a occur in b in the same order
IsSubsequence(a, b) ==
    IF a = <<>> THEN TRUE
    ELSE IF b = <<>> THEN FALSE
    ELSE IF Head(a) = Head(b) THEN IsSubsequence(Tail(a), Tail(b))
    ELSE IsSubsequence(a, Tail(b))

\* the list obtained for a conversion holds exactly the paths of its own text
OwnImagesObtained ==
    \A r \in Runs :
        run_pc[r] = "read" => heap[image_refs[r]] = ImagePathsOf(run_lines[r])

\* the list of a conversion under way keeps what the conversion has appended
ListKept ==
    \A r \in Runs :
        run_pc[r] \in {"running", "returned"}
        => IsSubsequence(run_appended[r], heap[converter_images[run_converter[r]]])

\* C19: when two convert() runs interleave, on one converter instance as well,
\* the image list obtained for each conversion holds exactly the paths of its
\* own text, and a convert() started later never empties or shortens the list
\* of a conversion under way
C19_ConversionsIsolated == OwnImagesObtained /\ ListKept

\* what holds: conversions on converter instances of their own are isolated
C19_IsolatedOnOwnInstances ==
    run_converter[1] # run_converter[2] => (OwnImagesObtained /\ ListKept)

(***************************************************************************)
(* Properties of upload_attachment                                         *)
(***************************************************************************)

\* an attachment named like the file exists on the page and its recorded
\* size is the size of the local file
SameSizeAttachment ==
    /\ existing_attachments.given
    /\ \E a \in existing_attachments.atts :
           /\ a.title = basename(filepath)
           /\ a.fileSize.present
           /\ a.fileSize.digits = ToStr(local_size)

C20_UploadedOtherSize ==
    /\ apc = "done" /\ uploaded = "True" /\ Len(post_log) = 1
    /\ \E a \in existing_attachments.atts :
           a.title = basename(filepath) /\ a.fileSize.present
           /\ a.fileSize.digits # ToStr(local_size)

(***************************************************************************)
(* Properties of download_page and download_all                            *)
(***************************************************************************)

Calls == {page_log[k] : k \in 1..Len(page_log)}

\* the manifest has an entry for the page with a version number and the
\* listing gives no higher version
KnownVersion(e) ==
    /\ e.id \in DOMAIN e.manifest_before
    /\ e.manifest_before[e.id].version > 0
    /\ e.listed <= e.manifest_before[e.id].version

\* the call left the counters but one as they were, and that one a step higher
OnlyCounted(e, counter) == e.stats_after = [e.stats_before EXCEPT ![counter] = @ + 1]

\* run e2 is the update run right after the run of e1, started from the
\* manifest that run saved, and meets the page at the version e1 downloaded
RepeatedRun(e1, e2) ==
    /\ e1.path = "saved"
    /\ e2.mode /\ e2.run = e1.run + 1 /\ e2.loaded = e1.run
    /\ e2.id = e1.id
    /\ e2.listed = e1.files_after[e1.id].version

\* the page is not in the manifest, or the listing gives a higher version
\* than the one its file was written from
AbsentOrModified(e) ==
    \/ e.id \notin DOMAIN e.manifest_before
    \/ e.listed > e.files_before[e.id].version

\* the page is not in the manifest, its entry was built from the files and
\* has the version 0, or the listing gives a higher version than the entry
AbsentOrUnknownOrNewer(e) ==
    \/ e.id \notin DOMAIN e.manifest_before
    \/ e.manifest_before[e.id].version = 0
    \/ e.listed > e.manifest_before[e.id].version

Total(st) == st.downloaded_count + st.skipped_count + st.failed_count + st.unchanged_count

Counters == {"downloaded_count", "skipped_count", "failed_count", "unchanged_count"}

\* C29: every call of download_page that returns raises exactly one of the
\* four counters by one and leaves the others, it returns False exactly when
\* that counter is failed_count, and the counters sum to the number of pages
\* download_all has processed
C29_OneCounterPerPage ==
    /\ \A e \in Calls :
           /\ Cardinality({c \in Counters : OnlyCounted(e, c)}) = 1
           /\ ~e.returned <=> OnlyCounted(e, "failed_count")
    /\ upc = "pages" => Total(stats) = page_pos - 1

\* download_all has processed both pages, one saved and one failed
C29_Witness ==
    /\ upc = "pages" /\ page_pos = Len(page_list) + 1 /\ page_pos = 3
    /\ stats.downloaded_count = 1 /\ stats.failed_count = 1
    /\ \E e \in Calls : ~e.returned

\* C30: a call of download_page that fails or skips the page leaves the
\* manifest as it was, a call that writes an entry has saved the file, and
\* every page of the manifest, in memory and on disk, has been saved by some
\* call
C30_ManifestOnlyAfterSave ==
    /\ \A e \in Calls :
           /\ e.path # "saved" => e.manifest_after = e.manifest_before
           /\ e.manifest_after # e.manifest_before =>
                  /\ e.id \in DOMAIN e.files_after
                  /\ e.files_after[e.id].mtime = e.manifest_after[e.id].downloaded_at
    /\ \A id \in DOMAIN self_manifest \cup DOMAIN manifest_file.data :
           \E e \in Calls : e.id = id /\ e.path = "saved"

\* a fetch that failed and a write that raised, the pages then not in the
\* manifest
C30_Witness ==
    /\ \E e \in Calls : e.path = "nofetch" /\ e.id \notin DOMAIN e.manifest_after
    /\ \E e \in Calls : e.path = "savefail" /\ e.id \notin DOMAIN e.manifest_after
    /\ \E e \in Calls : e.path = "saved" /\ e.id \in DOMAIN self_manifest

(***************************************************************************)
(* Properties of upload                                                    *)
(***************************************************************************)

\* C22: with dry_run set upload issues no request to the API, whatever
\* update, parent_title and parent_id are, and returns with the markup printed
C22_DryRunNoRequest ==
    upload_args.dry_run =>
        /\ request_log = <<>>
        /\ wpc \in {"start", "converted", "done"}
        /\ wpc = "done" => printed

\* a dry run that has returned, with update, a parent id, a document id and
\* an image file given
C22_Witness ==
    /\ wpc = "done" /\ printed /\ request_log = <<>>
    /\ upload_args.dry_run /\ upload_args.update /\ upload_args.parent_id
    /\ upload_args.doc_id /\ upload_args.image_files > 0

\* without dry_run the same arguments lead to requests
C22_RequestsWithoutDryRun ==
    /\ wpc = "done" /\ ~upload_args.dry_run /\ upload_args.update
    /\ Len(request_log) >= 3

(***************************************************************************)
(* Properties of the lines of a list item                                  *)
(***************************************************************************)

\* the children of the one list item of the document
ItemContent == content[1].content[1].content

\* the item has a paragraph child with text that is not blank
HasTextParagraph ==
    \E k \in 1..Len(ItemContent) :
        ItemContent[k].type = "paragraph" /\ strip(ExtractText(ItemContent[k])) # <<>>

\* the blocks that are primary lines: bullet-prefixed or number-prefixed
PrimaryLines == {k \in 1..Len(block_log) : block_log[k].kind \in {"ul", "ol"}}

\* C23: a list item with a paragraph child of non-blank text gets exactly one
\* primary line, and that line comes before all continuation lines and
\* nested-bullet lines of the item, whatever the order of its children
C23_OnePrimaryLineFirst ==
    (rpc = "done" /\ HasTextParagraph) =>
        /\ Cardinality(PrimaryLines) = 1
        /\ 1 \in PrimaryLines

\* where the first child that yields a line is a paragraph, the item has one
\* primary line and it is the first line
C23_PrimaryFirstWhenParagraphLeads ==
    (/\ rpc = "done" /\ HasTextParagraph
     /\ \A k \in 1..Len(ItemContent) :
            ItemContent[k].type = "bulletList" =>
                \E j \in 1..(k - 1) :
                    /\ ItemContent[j].type = "paragraph"
                    /\ strip(ExtractText(ItemContent[j])) # <<>>)
    => /\ Cardinality(PrimaryLines) = 1
       /\ 1 \in PrimaryLines

\* the blank lines of the returned Markdown
BlankLines == {k \in 1..(Len(md_text) - 1) : SubSeq(md_text, k, k + 1) = <<"\n", "\n">>}

\* C24: every top-level node adds at most one string to the list markdown, so
\* the returned Markdown has no more blocks separated by blank lines than the
\* document has top-level nodes, and the lines of one list have no blank line
\* between them
C24_OneBlockPerNode ==
    rpc = "done" =>
        /\ Len(markdown) <= Len(content)
        /\ Cardinality(BlankLines) < Len(content)

\* the returned Markdown is the strings of the list markdown that are not
\* empty, joined by one blank line
C24_JoinedByBlankLines ==
    rpc = "done" =>
        /\ md_text = join(<<"\n", "\n">>, SelectSeq(markdown, LAMBDA b : b # <<>>))
        /\ \A k \in 1..Len(markdown) : strip(markdown[k]) # <<>>

(***************************************************************************)
(* Properties of a text in front of an inlineCard                          *)
(***************************************************************************)

\* the places of t where m occurs
Places(m, t) == {k \in 1..(Len(t) - Len(m) + 1) : SubSeq(t, k, k + Len(m) - 1) = m}

\* the children of paragraph p that are inlineCards right after a text child
\* with text that is not blank
LabelledCards(p) ==
    {j \in 2..Len(p.content) :
        /\ p.content[j].type = "inlineCard"
        /\ p.content[j - 1].type = "text"
        /\ strip(p.content[j - 1].text) # <<>>}

\* the text in front of card j of paragraph p occurs exactly once in text
LabelOnce(p, j, text) == Cardinality(Places(strip(p.content[j - 1].text), text)) = 1

\* C25: a text child with text that is not blank, right in front of an
\* inlineCard, occurs exactly once in what the paragraph renders to, for every
\* inlineCard, the ones with an empty url and after a source label included
C25_LabelRenderedOnce ==
    pass = "done" =>
        \A k \in 1..Len(doc_content) : \A j \in LabelledCards(doc_content[k]) :
            LabelOnce(doc_content[k], j, doc_text)

\* the same for the inlineCards whose url is not empty
C25_LabelOnceWithUrl ==
    pass = "done" =>
        \A k \in 1..Len(doc_content) : \A j \in LabelledCards(doc_content[k]) :
            doc_content[k].content[j].attrs.url # <<>> =>
                LabelOnce(doc_content[k], j, doc_text)

(***************************************************************************)
(* Properties of a codeBlock rendered and parsed back                      *)
(***************************************************************************)

\* the concatenation of the text children of node n
Body(n) == join(<<>>, [k \in 1..Len(n.content) |-> n.content[k].text])

\* the codeBlock of the document is rendered as one fence with its language
\* and its body, the first scan parses it as a code block with that language
\* and that body, and the second scan starts on the line after the closing
\* fence
RoundTrip(n) ==
    /\ Len(markdown) >= 1
    /\ markdown[1] = <<BQ, BQ, BQ>> \o n.attrs.language \o <<"\n">> \o Body(n)
                         \o <<"\n", BQ, BQ, BQ>>
    /\ Len(scan_log) >= 1
    /\ scan_log[1].kind = "code"
    /\ scan_log[1].code = [lang |-> n.attrs.language, body |-> Body(n)]
    /\ scan_log[1].next = Len(split(markdown[1], "\n"))

\* C26: a codeBlock is rendered as a fence with attrs.language and the body
\* unmodified, and parsing the rendered block gives one code macro with that
\* language and that body, the scan resuming right after the closing fence
C26_CodeBlockRoundTrip ==
    (rpc = "done" /\ cpc = "done" /\ content[1].type = "codeBlock") =>
        RoundTrip(content[1])

\* a language of \w characters only
WordLanguage(n) == \A k \in 1..Len(n.attrs.language) : n.attrs.language[k] \in WordChars

\* a body that is not blank and has no fence line, of text children none of
\* which ends with an asterisk or a backquote before another child
PlainBody(n) ==
    /\ strip(Body(n)) # <<>>
    /\ \A k \in 1..(Len(n.content) - 1) :
           LET t == n.content[k].text IN t = <<>> \/ t[Len(t)] \notin {"*", BQ}
    /\ \A l \in Range(split(Body(n), "\n")) : strip(l) # <<BQ, BQ, BQ>>

\* the same for codeBlocks with a language of \w characters and a plain body
C26_RoundTripOfPlainBlocks ==
    (rpc = "done" /\ cpc = "done" /\ content[1].type = "codeBlock"
        /\ WordLanguage(content[1]) /\ PlainBody(content[1])) =>
        RoundTrip(content[1])

(***************************************************************************)
(* Properties of the listing loops                                         *)
(***************************************************************************)

\* C28: a call of get_all_pages_content_api or search_all_pages issues at most
\* max_iterations requests, whatever the server answers, answers with status
\* 429 included
C28_AtMostMaxIterationsRequests == requests <= max_iterations

\* every request but the rate-limited ones and the last one is an iteration
C28_RequestsButRetriesCounted ==
    /\ iteration <= max_iterations
    /\ requests = iteration + rate_limited + (IF lpc = "returned" /\ iteration < max_iterations THEN 1 ELSE 0)

SpecTextInit ==
    /\ TextInit
    /\ TableIdle
    /\ ConvertIdle
    /\ RenderIdle
    /\ InlineIdle
    /\ MediaIdle
    /\ DownloadIdle
    /\ SharedIdle
    /\ AttachIdle
    /\ UpdateIdle
    /\ UploadIdle
    /\ ListingIdle
SpecTextNext ==
    \/ _extract_text_from_node /\ UNCHANGED <<table_vars, convert_vars, render_vars, inline_vars, media_vars, download_vars, shared_vars, attach_vars, update_vars, upload_vars, listing_vars>>
SpecText == SpecTextInit /\ [][SpecTextNext]_vars

SpecTableInit ==
    /\ TableInit
    /\ TextIdle
    /\ ConvertIdle
    /\ RenderIdle
    /\ InlineIdle
    /\ MediaIdle
    /\ DownloadIdle
    /\ SharedIdle
    /\ AttachIdle
    /\ UpdateIdle
    /\ UploadIdle
    /\ ListingIdle
SpecTableNext ==
    \/ TableFittingRow /\ UNCHANGED <<text_vars, convert_vars, render_vars, inline_vars, media_vars, download_vars, shared_vars, attach_vars, update_vars, upload_vars, listing_vars>>
    \/ TableEmptyRow /\ UNCHANGED <<text_vars, convert_vars, render_vars, inline_vars, media_vars, download_vars, shared_vars, attach_vars, update_vars, upload_vars, listing_vars>>
    \/ TableOtherNode /\ UNCHANGED <<text_vars, convert_vars, render_vars, inline_vars, media_vars, download_vars, shared_vars, attach_vars, update_vars, upload_vars, listing_vars>>
    \/ TableReturn /\ UNCHANGED <<text_vars, convert_vars, render_vars, inline_vars, media_vars, download_vars, shared_vars, attach_vars, update_vars, upload_vars, listing_vars>>
SpecTable == SpecTableInit /\ [][SpecTableNext]_vars

SpecConvertInit ==
    /\ ConvertInit
    /\ TextIdle
    /\ TableIdle
    /\ RenderIdle
    /\ InlineIdle
    /\ MediaIdle
    /\ DownloadIdle
    /\ SharedIdle
    /\ AttachIdle
    /\ UpdateIdle
    /\ UploadIdle
    /\ ListingIdle
SpecConvertNext ==
    \/ ScanCodeBlock /\ UNCHANGED <<text_vars, table_vars, render_vars, inline_vars, media_vars, download_vars, shared_vars, attach_vars, update_vars, upload_vars, listing_vars>>
    \/ ScanRule /\ UNCHANGED <<text_vars, table_vars, render_vars, inline_vars, media_vars, download_vars, shared_vars, attach_vars, update_vars, upload_vars, listing_vars>>
    \/ ScanHeading /\ UNCHANGED <<text_vars, table_vars, render_vars, inline_vars, media_vars, download_vars, shared_vars, attach_vars, update_vars, upload_vars, listing_vars>>
    \/ ScanTable /\ UNCHANGED <<text_vars, table_vars, render_vars, inline_vars, media_vars, download_vars, shared_vars, attach_vars, update_vars, upload_vars, listing_vars>>
    \/ ScanUnorderedList /\ UNCHANGED <<text_vars, table_vars, render_vars, inline_vars, media_vars, download_vars, shared_vars, attach_vars, update_vars, upload_vars, listing_vars>>
    \/ ScanOrderedList /\ UNCHANGED <<text_vars, table_vars, render_vars, inline_vars, media_vars, download_vars, shared_vars, attach_vars, update_vars, upload_vars, listing_vars>>
    \/ ScanBlockquote /\ UNCHANGED <<text_vars, table_vars, render_vars, inline_vars, media_vars, download_vars, shared_vars, attach_vars, update_vars, upload_vars, listing_vars>>
    \/ ScanBlank /\ UNCHANGED <<text_vars, table_vars, render_vars, inline_vars, media_vars, download_vars, shared_vars, attach_vars, update_vars, upload_vars, listing_vars>>
    \/ ScanParagraph /\ UNCHANGED <<text_vars, table_vars, render_vars, inline_vars, media_vars, download_vars, shared_vars, attach_vars, update_vars, upload_vars, listing_vars>>
    \/ ConvertReturn /\ UNCHANGED <<text_vars, table_vars, render_vars, inline_vars, media_vars, download_vars, shared_vars, attach_vars, update_vars, upload_vars, listing_vars>>
SpecConvert == SpecConvertInit /\ [][SpecConvertNext]_vars

\* the renderer on documents of headings, toc extensions and expand sections
SpecRenderInit ==
    /\ RenderInit(SeqsUpTo(TocNodes, MaxNodes))
    /\ TextIdle
    /\ TableIdle
    /\ ConvertIdle
    /\ InlineIdle
    /\ MediaIdle
    /\ DownloadIdle
    /\ SharedIdle
    /\ AttachIdle
    /\ UpdateIdle
    /\ UploadIdle
    /\ ListingIdle
SpecRenderNext ==
    \/ CollectHeadings /\ UNCHANGED <<text_vars, table_vars, convert_vars, inline_vars, media_vars, download_vars, shared_vars, attach_vars, update_vars, upload_vars, listing_vars>>
    \/ RenderHeading /\ UNCHANGED <<text_vars, table_vars, convert_vars, inline_vars, media_vars, download_vars, shared_vars, attach_vars, update_vars, upload_vars, listing_vars>>
    \/ RenderExpand /\ UNCHANGED <<text_vars, table_vars, convert_vars, inline_vars, media_vars, download_vars, shared_vars, attach_vars, update_vars, upload_vars, listing_vars>>
    \/ RenderExtension /\ UNCHANGED <<text_vars, table_vars, convert_vars, inline_vars, media_vars, download_vars, shared_vars, attach_vars, update_vars, upload_vars, listing_vars>>
    \/ RenderReturn /\ UNCHANGED <<text_vars, table_vars, convert_vars, inline_vars, media_vars, download_vars, shared_vars, attach_vars, update_vars, upload_vars, listing_vars>>
SpecRender == SpecRenderInit /\ [][SpecRenderNext]_vars

\* the renderer on documents of every block kind, its output parsed by convert()
SpecPipelineInit ==
    /\ RenderInit(SeqsUpTo(PipelineNodes, MaxPipelineNodes) \ {<<>>})
    /\ lines = <<>> /\ i = 0 /\ html_parts = <<>> /\ scan_log = <<>> /\ cpc = "wait"
    /\ TextIdle
    /\ TableIdle
    /\ InlineIdle
    /\ MediaIdle
    /\ DownloadIdle
    /\ SharedIdle
    /\ AttachIdle
    /\ UpdateIdle
    /\ UploadIdle
    /\ ListingIdle
SpecPipelineNext ==
    \/ CollectHeadings /\ UNCHANGED <<text_vars, table_vars, convert_vars, inline_vars, media_vars, download_vars, shared_vars, attach_vars, update_vars, upload_vars, listing_vars>>
    \/ RenderParagraph /\ UNCHANGED <<text_vars, table_vars, convert_vars, inline_vars, media_vars, download_vars, shared_vars, attach_vars, update_vars, upload_vars, listing_vars>>
    \/ RenderHeading /\ UNCHANGED <<text_vars, table_vars, convert_vars, inline_vars, media_vars, download_vars, shared_vars, attach_vars, update_vars, upload_vars, listing_vars>>
    \/ RenderBulletList /\ UNCHANGED <<text_vars, table_vars, convert_vars, inline_vars, media_vars, download_vars, shared_vars, attach_vars, update_vars, upload_vars, listing_vars>>
    \/ RenderOrderedList /\ UNCHANGED <<text_vars, table_vars, convert_vars, inline_vars, media_vars, download_vars, shared_vars, attach_vars, update_vars, upload_vars, listing_vars>>
    \/ RenderTable /\ UNCHANGED <<text_vars, table_vars, convert_vars, inline_vars, media_vars, download_vars, shared_vars, attach_vars, update_vars, upload_vars, listing_vars>>
    \/ RenderCodeBlock /\ UNCHANGED <<text_vars, table_vars, convert_vars, inline_vars, media_vars, download_vars, shared_vars, attach_vars, update_vars, upload_vars, listing_vars>>
    \/ RenderRule /\ UNCHANGED <<text_vars, table_vars, convert_vars, inline_vars, media_vars, download_vars, shared_vars, attach_vars, update_vars, upload_vars, listing_vars>>
    \/ RenderExpand /\ UNCHANGED <<text_vars, table_vars, convert_vars, inline_vars, media_vars, download_vars, shared_vars, attach_vars, update_vars, upload_vars, listing_vars>>
    \/ RenderExtension /\ UNCHANGED <<text_vars, table_vars, convert_vars, inline_vars, media_vars, download_vars, shared_vars, attach_vars, update_vars, upload_vars, listing_vars>>
    \/ RenderUnrecognized /\ UNCHANGED <<text_vars, table_vars, convert_vars, inline_vars, media_vars, download_vars, shared_vars, attach_vars, update_vars, upload_vars, listing_vars>>
    \/ RenderReturn /\ UNCHANGED <<text_vars, table_vars, convert_vars, inline_vars, media_vars, download_vars, shared_vars, attach_vars, update_vars, upload_vars, listing_vars>>
    \/ ConvertRendered /\ UNCHANGED <<text_vars, table_vars, render_vars, inline_vars, media_vars, download_vars, shared_vars, attach_vars, update_vars, upload_vars, listing_vars>>
    \/ ScanCodeBlock /\ UNCHANGED <<text_vars, table_vars, render_vars, inline_vars, media_vars, download_vars, shared_vars, attach_vars, update_vars, upload_vars, listing_vars>>
    \/ ScanRule /\ UNCHANGED <<text_vars, table_vars, render_vars, inline_vars, media_vars, download_vars, shared_vars, attach_vars, update_vars, upload_vars, listing_vars>>
    \/ ScanHeading /\ UNCHANGED <<text_vars, table_vars, render_vars, inline_vars, media_vars, download_vars, shared_vars, attach_vars, update_vars, upload_vars, listing_vars>>
    \/ ScanTable /\ UNCHANGED <<text_vars, table_vars, render_vars, inline_vars, media_vars, download_vars, shared_vars, attach_vars, update_vars, upload_vars, listing_vars>>
    \/ ScanUnorderedList /\ UNCHANGED <<text_vars, table_vars, render_vars, inline_vars, media_vars, download_vars, shared_vars, attach_vars, update_vars, upload_vars, listing_vars>>
    \/ ScanOrderedList /\ UNCHANGED <<text_vars, table_vars, render_vars, inline_vars, media_vars, download_vars, shared_vars, attach_vars, update_vars, upload_vars, listing_vars>>
    \/ ScanBlockquote /\ UNCHANGED <<text_vars, table_vars, render_vars, inline_vars, media_vars, download_vars, shared_vars, attach_vars, update_vars, upload_vars, listing_vars>>
    \/ ScanBlank /\ UNCHANGED <<text_vars, table_vars, render_vars, inline_vars, media_vars, download_vars, shared_vars, attach_vars, update_vars, upload_vars, listing_vars>>
    \/ ScanParagraph /\ UNCHANGED <<text_vars, table_vars, render_vars, inline_vars, media_vars, download_vars, shared_vars, attach_vars, update_vars, upload_vars, listing_vars>>
    \/ ConvertReturn /\ UNCHANGED <<text_vars, table_vars, render_vars, inline_vars, media_vars, download_vars, shared_vars, attach_vars, update_vars, upload_vars, listing_vars>>
SpecPipeline == SpecPipelineInit /\ [][SpecPipelineNext]_vars

\* the renderer on one list of one item, the children of the item in every order
SpecListsInit ==
    /\ RenderInit(ListDocs)
    /\ TextIdle
    /\ TableIdle
    /\ ConvertIdle
    /\ InlineIdle
    /\ MediaIdle
    /\ DownloadIdle
    /\ SharedIdle
    /\ AttachIdle
    /\ UpdateIdle
    /\ UploadIdle
    /\ ListingIdle
SpecListsNext ==
    \/ CollectHeadings /\ UNCHANGED <<text_vars, table_vars, convert_vars, inline_vars, media_vars, download_vars, shared_vars, attach_vars, update_vars, upload_vars, listing_vars>>
    \/ RenderBulletList /\ UNCHANGED <<text_vars, table_vars, convert_vars, inline_vars, media_vars, download_vars, shared_vars, attach_vars, update_vars, upload_vars, listing_vars>>
    \/ RenderOrderedList /\ UNCHANGED <<text_vars, table_vars, convert_vars, inline_vars, media_vars, download_vars, shared_vars, attach_vars, update_vars, upload_vars, listing_vars>>
    \/ RenderReturn /\ UNCHANGED <<text_vars, table_vars, convert_vars, inline_vars, media_vars, download_vars, shared_vars, attach_vars, update_vars, upload_vars, listing_vars>>
SpecLists == SpecListsInit /\ [][SpecListsNext]_vars

\* the renderer on one codeBlock, its output parsed by convert()
SpecCodeInit ==
    /\ RenderInit(CodeDocs)
    /\ lines = <<>> /\ i = 0 /\ html_parts = <<>> /\ scan_log = <<>> /\ cpc = "wait"
    /\ TextIdle
    /\ TableIdle
    /\ InlineIdle
    /\ MediaIdle
    /\ DownloadIdle
    /\ SharedIdle
    /\ AttachIdle
    /\ UpdateIdle
    /\ UploadIdle
    /\ ListingIdle
SpecCodeNext ==
    \/ CollectHeadings /\ UNCHANGED <<text_vars, table_vars, convert_vars, inline_vars, media_vars, download_vars, shared_vars, attach_vars, update_vars, upload_vars, listing_vars>>
    \/ RenderParagraph /\ UNCHANGED <<text_vars, table_vars, convert_vars, inline_vars, media_vars, download_vars, shared_vars, attach_vars, update_vars, upload_vars, listing_vars>>
    \/ RenderCodeBlock /\ UNCHANGED <<text_vars, table_vars, convert_vars, inline_vars, media_vars, download_vars, shared_vars, attach_vars, update_vars, upload_vars, listing_vars>>
    \/ RenderReturn /\ UNCHANGED <<text_vars, table_vars, convert_vars, inline_vars, media_vars, download_vars, shared_vars, attach_vars, update_vars, upload_vars, listing_vars>>
    \/ ConvertRendered /\ UNCHANGED <<text_vars, table_vars, render_vars, inline_vars, media_vars, download_vars, shared_vars, attach_vars, update_vars, upload_vars, listing_vars>>
    \/ ScanCodeBlock /\ UNCHANGED <<text_vars, table_vars, render_vars, inline_vars, media_vars, download_vars, shared_vars, attach_vars, update_vars, upload_vars, listing_vars>>
    \/ ScanHeading /\ UNCHANGED <<text_vars, table_vars, render_vars, inline_vars, media_vars, download_vars, shared_vars, attach_vars, update_vars, upload_vars, listing_vars>>
    \/ ScanBlank /\ UNCHANGED <<text_vars, table_vars, render_vars, inline_vars, media_vars, download_vars, shared_vars, attach_vars, update_vars, upload_vars, listing_vars>>
    \/ ScanParagraph /\ UNCHANGED <<text_vars, table_vars, render_vars, inline_vars, media_vars, download_vars, shared_vars, attach_vars, update_vars, upload_vars, listing_vars>>
    \/ ConvertReturn /\ UNCHANGED <<text_vars, table_vars, render_vars, inline_vars, media_vars, download_vars, shared_vars, attach_vars, update_vars, upload_vars, listing_vars>>
SpecCode == SpecCodeInit /\ [][SpecCodeNext]_vars

\* _convert_inline on the text of a one-line paragraph
SpecInlineInit ==
    /\ InlineInit
    /\ TextIdle
    /\ TableIdle
    /\ ConvertIdle
    /\ RenderIdle
    /\ MediaIdle
    /\ DownloadIdle
    /\ SharedIdle
    /\ AttachIdle
    /\ UpdateIdle
    /\ UploadIdle
    /\ ListingIdle
SpecInlineNext ==
    \/ InlineImages /\ UNCHANGED <<text_vars, table_vars, convert_vars, render_vars, media_vars, download_vars, shared_vars, attach_vars, update_vars, upload_vars, listing_vars>>
    \/ InlineLinks /\ UNCHANGED <<text_vars, table_vars, convert_vars, render_vars, media_vars, download_vars, shared_vars, attach_vars, update_vars, upload_vars, listing_vars>>
    \/ InlineBoldStar /\ UNCHANGED <<text_vars, table_vars, convert_vars, render_vars, media_vars, download_vars, shared_vars, attach_vars, update_vars, upload_vars, listing_vars>>
    \/ InlineBoldUnder /\ UNCHANGED <<text_vars, table_vars, convert_vars, render_vars, media_vars, download_vars, shared_vars, attach_vars, update_vars, upload_vars, listing_vars>>
    \/ InlineItalicStar /\ UNCHANGED <<text_vars, table_vars, convert_vars, render_vars, media_vars, download_vars, shared_vars, attach_vars, update_vars, upload_vars, listing_vars>>
    \/ InlineItalicUnder /\ UNCHANGED <<text_vars, table_vars, convert_vars, render_vars, media_vars, download_vars, shared_vars, attach_vars, update_vars, upload_vars, listing_vars>>
    \/ InlineStrike /\ UNCHANGED <<text_vars, table_vars, convert_vars, render_vars, media_vars, download_vars, shared_vars, attach_vars, update_vars, upload_vars, listing_vars>>
    \/ InlineCode /\ UNCHANGED <<text_vars, table_vars, convert_vars, render_vars, media_vars, download_vars, shared_vars, attach_vars, update_vars, upload_vars, listing_vars>>
    \/ InlineBreak /\ UNCHANGED <<text_vars, table_vars, convert_vars, render_vars, media_vars, download_vars, shared_vars, attach_vars, update_vars, upload_vars, listing_vars>>
    \/ InlineReturn /\ UNCHANGED <<text_vars, table_vars, convert_vars, render_vars, media_vars, download_vars, shared_vars, attach_vars, update_vars, upload_vars, listing_vars>>
SpecInline == SpecInlineInit /\ [][SpecInlineNext]_vars

\* atlas_doc_to_markdown on documents with media and inlineCard nodes, each collaborator call a step
SpecMediaInit ==
    /\ MediaInit
    /\ TextIdle
    /\ TableIdle
    /\ ConvertIdle
    /\ RenderIdle
    /\ InlineIdle
    /\ DownloadIdle
    /\ SharedIdle
    /\ AttachIdle
    /\ UpdateIdle
    /\ UploadIdle
    /\ ListingIdle
SpecMediaNext ==
    \/ PrePassSkip /\ UNCHANGED <<text_vars, table_vars, convert_vars, render_vars, inline_vars, download_vars, shared_vars, attach_vars, update_vars, upload_vars, listing_vars>>
    \/ PrePassHeading /\ UNCHANGED <<text_vars, table_vars, convert_vars, render_vars, inline_vars, download_vars, shared_vars, attach_vars, update_vars, upload_vars, listing_vars>>
    \/ DownloadMedia /\ UNCHANGED <<text_vars, table_vars, convert_vars, render_vars, inline_vars, download_vars, shared_vars, attach_vars, update_vars, upload_vars, listing_vars>>
    \/ FetchPageTitle /\ UNCHANGED <<text_vars, table_vars, convert_vars, render_vars, inline_vars, download_vars, shared_vars, attach_vars, update_vars, upload_vars, listing_vars>>
    \/ PrePassCollect /\ UNCHANGED <<text_vars, table_vars, convert_vars, render_vars, inline_vars, download_vars, shared_vars, attach_vars, update_vars, upload_vars, listing_vars>>
    \/ PrePassReturn /\ UNCHANGED <<text_vars, table_vars, convert_vars, render_vars, inline_vars, download_vars, shared_vars, attach_vars, update_vars, upload_vars, listing_vars>>
    \/ RenderVisit /\ UNCHANGED <<text_vars, table_vars, convert_vars, render_vars, inline_vars, download_vars, shared_vars, attach_vars, update_vars, upload_vars, listing_vars>>
    \/ RenderAppend /\ UNCHANGED <<text_vars, table_vars, convert_vars, render_vars, inline_vars, download_vars, shared_vars, attach_vars, update_vars, upload_vars, listing_vars>>
    \/ MediaReturn /\ UNCHANGED <<text_vars, table_vars, convert_vars, render_vars, inline_vars, download_vars, shared_vars, attach_vars, update_vars, upload_vars, listing_vars>>
SpecMedia == SpecMediaInit /\ [][SpecMediaNext]_vars

\* atlas_doc_to_markdown on one paragraph with a text in front of an inlineCard
SpecCardsInit ==
    /\ CardInit
    /\ TextIdle
    /\ TableIdle
    /\ ConvertIdle
    /\ RenderIdle
    /\ InlineIdle
    /\ DownloadIdle
    /\ SharedIdle
    /\ AttachIdle
    /\ UpdateIdle
    /\ UploadIdle
    /\ ListingIdle
SpecCardsNext ==
    \/ PrePassSkip /\ UNCHANGED <<text_vars, table_vars, convert_vars, render_vars, inline_vars, download_vars, shared_vars, attach_vars, update_vars, upload_vars, listing_vars>>
    \/ FetchPageTitle /\ UNCHANGED <<text_vars, table_vars, convert_vars, render_vars, inline_vars, download_vars, shared_vars, attach_vars, update_vars, upload_vars, listing_vars>>
    \/ PrePassReturn /\ UNCHANGED <<text_vars, table_vars, convert_vars, render_vars, inline_vars, download_vars, shared_vars, attach_vars, update_vars, upload_vars, listing_vars>>
    \/ RenderVisit /\ UNCHANGED <<text_vars, table_vars, convert_vars, render_vars, inline_vars, download_vars, shared_vars, attach_vars, update_vars, upload_vars, listing_vars>>
    \/ RenderAppend /\ UNCHANGED <<text_vars, table_vars, convert_vars, render_vars, inline_vars, download_vars, shared_vars, attach_vars, update_vars, upload_vars, listing_vars>>
    \/ MediaReturn /\ UNCHANGED <<text_vars, table_vars, convert_vars, render_vars, inline_vars, download_vars, shared_vars, attach_vars, update_vars, upload_vars, listing_vars>>
SpecCards == SpecCardsInit /\ [][SpecCardsNext]_vars

\* download_page on one fetched page
SpecDownloadInit ==
    /\ DownloadInit
    /\ TextIdle
    /\ TableIdle
    /\ ConvertIdle
    /\ RenderIdle
    /\ InlineIdle
    /\ MediaIdle
    /\ SharedIdle
    /\ AttachIdle
    /\ UpdateIdle
    /\ UploadIdle
    /\ ListingIdle
SpecDownloadNext ==
    \/ DownloadNoPage /\ UNCHANGED <<text_vars, table_vars, convert_vars, render_vars, inline_vars, media_vars, shared_vars, attach_vars, update_vars, upload_vars, listing_vars>>
    \/ PrepareContent /\ UNCHANGED <<text_vars, table_vars, convert_vars, render_vars, inline_vars, media_vars, shared_vars, attach_vars, update_vars, upload_vars, listing_vars>>
    \/ PrepareNoBody /\ UNCHANGED <<text_vars, table_vars, convert_vars, render_vars, inline_vars, media_vars, shared_vars, attach_vars, update_vars, upload_vars, listing_vars>>
    \/ SaveFile /\ UNCHANGED <<text_vars, table_vars, convert_vars, render_vars, inline_vars, media_vars, shared_vars, attach_vars, update_vars, upload_vars, listing_vars>>
    \/ SaveFileFails /\ UNCHANGED <<text_vars, table_vars, convert_vars, render_vars, inline_vars, media_vars, shared_vars, attach_vars, update_vars, upload_vars, listing_vars>>
SpecDownload == SpecDownloadInit /\ [][SpecDownloadNext]_vars

\* two conversions whose steps interleave
SpecSharedInit ==
    /\ SharedInit
    /\ TextIdle
    /\ TableIdle
    /\ ConvertIdle
    /\ RenderIdle
    /\ InlineIdle
    /\ MediaIdle
    /\ DownloadIdle
    /\ AttachIdle
    /\ UpdateIdle
    /\ UploadIdle
    /\ ListingIdle
SpecSharedNext ==
    \/ Start /\ UNCHANGED <<text_vars, table_vars, convert_vars, render_vars, inline_vars, media_vars, download_vars, attach_vars, update_vars, upload_vars, listing_vars>>
    \/ AppendPath /\ UNCHANGED <<text_vars, table_vars, convert_vars, render_vars, inline_vars, media_vars, download_vars, attach_vars, update_vars, upload_vars, listing_vars>>
    \/ Return /\ UNCHANGED <<text_vars, table_vars, convert_vars, render_vars, inline_vars, media_vars, download_vars, attach_vars, update_vars, upload_vars, listing_vars>>
    \/ Read /\ UNCHANGED <<text_vars, table_vars, convert_vars, render_vars, inline_vars, media_vars, download_vars, attach_vars, update_vars, upload_vars, listing_vars>>
SpecShared == SpecSharedInit /\ [][SpecSharedNext]_vars

\* upload_attachment on one file
SpecAttachInit ==
    /\ AttachInit
    /\ TextIdle
    /\ TableIdle
    /\ ConvertIdle
    /\ RenderIdle
    /\ InlineIdle
    /\ MediaIdle
    /\ DownloadIdle
    /\ SharedIdle
    /\ UpdateIdle
    /\ UploadIdle
    /\ ListingIdle
SpecAttachNext ==
    \/ AttachNoFile /\ UNCHANGED <<text_vars, table_vars, convert_vars, render_vars, inline_vars, media_vars, download_vars, shared_vars, update_vars, upload_vars, listing_vars>>
    \/ AttachSkip /\ UNCHANGED <<text_vars, table_vars, convert_vars, render_vars, inline_vars, media_vars, download_vars, shared_vars, update_vars, upload_vars, listing_vars>>
    \/ AttachPost /\ UNCHANGED <<text_vars, table_vars, convert_vars, render_vars, inline_vars, media_vars, download_vars, shared_vars, update_vars, upload_vars, listing_vars>>
    \/ AttachUploaded /\ UNCHANGED <<text_vars, table_vars, convert_vars, render_vars, inline_vars, media_vars, download_vars, shared_vars, update_vars, upload_vars, listing_vars>>
SpecAttach == SpecAttachInit /\ [][SpecAttachNext]_vars

\* runs of main over the pages of a space, full and in update mode
SpecUpdateInit ==
    /\ UpdateInit
    /\ TextIdle
    /\ TableIdle
    /\ ConvertIdle
    /\ RenderIdle
    /\ InlineIdle
    /\ MediaIdle
    /\ DownloadIdle
    /\ SharedIdle
    /\ AttachIdle
    /\ UploadIdle
    /\ ListingIdle
SpecUpdateNext ==
    \/ RemoteEdit /\ UNCHANGED <<text_vars, table_vars, convert_vars, render_vars, inline_vars, media_vars, download_vars, shared_vars, attach_vars, upload_vars, listing_vars>>
    \/ RunStart /\ UNCHANGED <<text_vars, table_vars, convert_vars, render_vars, inline_vars, media_vars, download_vars, shared_vars, attach_vars, upload_vars, listing_vars>>
    \/ PageFiltered /\ UNCHANGED <<text_vars, table_vars, convert_vars, render_vars, inline_vars, media_vars, download_vars, shared_vars, attach_vars, upload_vars, listing_vars>>
    \/ PageNotIncluded /\ UNCHANGED <<text_vars, table_vars, convert_vars, render_vars, inline_vars, media_vars, download_vars, shared_vars, attach_vars, upload_vars, listing_vars>>
    \/ PageUnchanged /\ UNCHANGED <<text_vars, table_vars, convert_vars, render_vars, inline_vars, media_vars, download_vars, shared_vars, attach_vars, upload_vars, listing_vars>>
    \/ PageFetchFails /\ UNCHANGED <<text_vars, table_vars, convert_vars, render_vars, inline_vars, media_vars, download_vars, shared_vars, attach_vars, upload_vars, listing_vars>>
    \/ PagePrepareRaises /\ UNCHANGED <<text_vars, table_vars, convert_vars, render_vars, inline_vars, media_vars, download_vars, shared_vars, attach_vars, upload_vars, listing_vars>>
    \/ PageSave /\ UNCHANGED <<text_vars, table_vars, convert_vars, render_vars, inline_vars, media_vars, download_vars, shared_vars, attach_vars, upload_vars, listing_vars>>
    \/ SaveManifest /\ UNCHANGED <<text_vars, table_vars, convert_vars, render_vars, inline_vars, media_vars, download_vars, shared_vars, attach_vars, upload_vars, listing_vars>>
SpecUpdate == SpecUpdateInit /\ [][SpecUpdateNext]_vars

\* upload of one file, each request a step
SpecUploadInit ==
    /\ UploadInit
    /\ TextIdle
    /\ TableIdle
    /\ ConvertIdle
    /\ RenderIdle
    /\ InlineIdle
    /\ MediaIdle
    /\ DownloadIdle
    /\ SharedIdle
    /\ AttachIdle
    /\ UpdateIdle
    /\ ListingIdle
SpecUploadNext ==
    \/ UploadConvert /\ UNCHANGED <<text_vars, table_vars, convert_vars, render_vars, inline_vars, media_vars, download_vars, shared_vars, attach_vars, update_vars, listing_vars>>
    \/ DryRunReturn /\ UNCHANGED <<text_vars, table_vars, convert_vars, render_vars, inline_vars, media_vars, download_vars, shared_vars, attach_vars, update_vars, listing_vars>>
    \/ FindPageById /\ UNCHANGED <<text_vars, table_vars, convert_vars, render_vars, inline_vars, media_vars, download_vars, shared_vars, attach_vars, update_vars, listing_vars>>
    \/ FindPageByTitle /\ UNCHANGED <<text_vars, table_vars, convert_vars, render_vars, inline_vars, media_vars, download_vars, shared_vars, attach_vars, update_vars, listing_vars>>
    \/ UpdatePage /\ UNCHANGED <<text_vars, table_vars, convert_vars, render_vars, inline_vars, media_vars, download_vars, shared_vars, attach_vars, update_vars, listing_vars>>
    \/ FindParentPage /\ UNCHANGED <<text_vars, table_vars, convert_vars, render_vars, inline_vars, media_vars, download_vars, shared_vars, attach_vars, update_vars, listing_vars>>
    \/ CreatePage /\ UNCHANGED <<text_vars, table_vars, convert_vars, render_vars, inline_vars, media_vars, download_vars, shared_vars, attach_vars, update_vars, listing_vars>>
    \/ ListAttachments /\ UNCHANGED <<text_vars, table_vars, convert_vars, render_vars, inline_vars, media_vars, download_vars, shared_vars, attach_vars, update_vars, listing_vars>>
    \/ UploadImage /\ UNCHANGED <<text_vars, table_vars, convert_vars, render_vars, inline_vars, media_vars, download_vars, shared_vars, attach_vars, update_vars, listing_vars>>
    \/ UploadReturn /\ UNCHANGED <<text_vars, table_vars, convert_vars, render_vars, inline_vars, media_vars, download_vars, shared_vars, attach_vars, update_vars, listing_vars>>
SpecUpload == SpecUploadInit /\ [][SpecUploadNext]_vars

\* one call of a listing method, each request a step
SpecListingInit ==
    /\ ListingInit
    /\ TextIdle
    /\ TableIdle
    /\ ConvertIdle
    /\ RenderIdle
    /\ InlineIdle
    /\ MediaIdle
    /\ DownloadIdle
    /\ SharedIdle
    /\ AttachIdle
    /\ UpdateIdle
    /\ UploadIdle
SpecListingNext ==
    \/ ContentBatch /\ UNCHANGED <<text_vars, table_vars, convert_vars, render_vars, inline_vars, media_vars, download_vars, shared_vars, attach_vars, update_vars, upload_vars>>
    \/ ContentLastBatch /\ UNCHANGED <<text_vars, table_vars, convert_vars, render_vars, inline_vars, media_vars, download_vars, shared_vars, attach_vars, update_vars, upload_vars>>
    \/ ContentRateLimited /\ UNCHANGED <<text_vars, table_vars, convert_vars, render_vars, inline_vars, media_vars, download_vars, shared_vars, attach_vars, update_vars, upload_vars>>
    \/ ContentError /\ UNCHANGED <<text_vars, table_vars, convert_vars, render_vars, inline_vars, media_vars, download_vars, shared_vars, attach_vars, update_vars, upload_vars>>
    \/ SearchBatch /\ UNCHANGED <<text_vars, table_vars, convert_vars, render_vars, inline_vars, media_vars, download_vars, shared_vars, attach_vars, update_vars, upload_vars>>
    \/ SearchLastBatch /\ UNCHANGED <<text_vars, table_vars, convert_vars, render_vars, inline_vars, media_vars, download_vars, shared_vars, attach_vars, update_vars, upload_vars>>
    \/ SearchRateLimited /\ UNCHANGED <<text_vars, table_vars, convert_vars, render_vars, inline_vars, media_vars, download_vars, shared_vars, attach_vars, update_vars, upload_vars>>
    \/ SearchError /\ UNCHANGED <<text_vars, table_vars, convert_vars, render_vars, inline_vars, media_vars, download_vars, shared_vars, attach_vars, update_vars, upload_vars>>
    \/ IterationLimit /\ UNCHANGED <<text_vars, table_vars, convert_vars, render_vars, inline_vars, media_vars, download_vars, shared_vars, attach_vars, update_vars, upload_vars>>
SpecListing == SpecListingInit /\ [][SpecListingNext]_vars

====
